---- MODULE Spec2Model ----
(***************************************************************************)
(* A model of the heuristic post-processing core of the resume parser      *)
(* (src/resume_parser/postprocessing.py, with the line grouper of          *)
(* src/resume_parser/ingestion.py).                                        *)
(*                                                                         *)
(* Python strings are modelled as sequences of one-character strings, so   *)
(* that lower(), strip() and the regular expressions are computed on the   *)
(* characters.  The en-dash U+2013 is the one character written "EN_DASH". *)
(***************************************************************************)
EXTENDS Integers, Sequences, FiniteSets, TLC

VARIABLES
    pc,               \* position of the modelled call
    document,         \* DocumentContent: [pages |-> sequence of token sequences]
    pos,              \* detect_sections: index of the next token of document.tokens
    current_section,  \* detect_sections: the current label
    sections,         \* detect_sections / link_entities: label -> token sequence
    line_input,       \* group_tokens_by_line: the tokens, in arrival order
    grouped,          \* postprocessing.group_tokens_by_line: its result
    text_lines,       \* postprocessing.tokens_to_lines: its result
    ingest_lines,     \* ingestion._group_tokens_by_line: its result
    call,             \* a function called on its own and its arguments
    ret,              \* the value that function returned
    payload,          \* from_dict / sanitize_resume_payload: the mapping given
    resume,           \* the ResumeOutput constructed, or the exception raised
    dumped,           \* resume.to_dict(), or the mapping sanitize returns
    reloaded,         \* ResumeOutput.from_dict(dumped)
    embeddings,       \* link_entities: the embeddings argument
    utcnow,           \* datetime.utcnow() at the invocation of link_entities
    earlier           \* link_entities: the result of the invocation before

vars == <<pc, document, pos, current_section, sections,
          line_input, grouped, text_lines, ingest_lines, call, ret,
          payload, resume, dumped, reloaded, embeddings, utcnow, earlier>>

sectionVars == <<document, pos, current_section, sections>>
lineVars == <<line_input, grouped, text_lines, ingest_lines>>
dateVars == <<call, ret>>
schemaVars == <<payload, resume, dumped, reloaded>>
linkVars == <<embeddings, utcnow, earlier>>

(***************************************************************************)
(* Bounds of the model.                                                    *)
(***************************************************************************)
MaxPattern == 2      \* tokens of a short first page
MaxSecondPage == 1   \* tokens of a second page
Slack == 1           \* tokens of a long first page beyond the fallback limit
MaxTokens == 3       \* tokens handed to the line grouper
MaxFrags == 2        \* fragments of a date text

(***************************************************************************)
(* Strings.                                                                *)
(***************************************************************************)
\* Python values a function returns: None, a string, an integer, a tuple of
\* two values, or an exception that leaves the function
None == [kind |-> "none"]
StrVal(s) == [kind |-> "str", s |-> s]
IntVal(n) == [kind |-> "int", n |-> n]
TupleVal(a, b) == [kind |-> "tuple", items |-> <<a, b>>]
Raised(exc) == [kind |-> "raise", exc |-> exc]

UpperChars == <<"A","B","C","D","E","F","G","H","I","J","K","L","M",
                "N","O","P","Q","R","S","T","U","V","W","X","Y","Z">>
LowerChars == <<"a","b","c","d","e","f","g","h","i","j","k","l","m",
                "n","o","p","q","r","s","t","u","v","w","x","y","z">>
DigitChars == <<"0","1","2","3","4","5","6","7","8","9">>

Range(s) == {s[i] : i \in DOMAIN s}
Min(a, b) == IF a <= b THEN a ELSE b
Max(a, b) == IF a >= b THEN a ELSE b

\* str.lower() on one character
LowerChar(c) ==
    IF \E i \in DOMAIN UpperChars : UpperChars[i] = c
    THEN LowerChars[CHOOSE i \in DOMAIN UpperChars : UpperChars[i] = c]
    ELSE c

\* str.lower()
LowerStr(s) == [i \in DOMAIN s |-> LowerChar(s[i])]

\* s[a:b] of Python for 0 <= a, in the 1-based positions a+1 .. b
Slice(s, a, b) == SubSeq(s, a + 1, Min(b, Len(s)))

\* str.lstrip(chars), str.rstrip(chars), str.strip(chars)
LStrip(s, chars) ==
    LET kept == {k \in DOMAIN s : s[k] \notin chars}
    IN  IF kept = {} THEN <<>>
        ELSE SubSeq(s, CHOOSE k \in kept : \A j \in kept : k <= j, Len(s))

RStrip(s, chars) ==
    LET kept == {k \in DOMAIN s : s[k] \notin chars}
    IN  IF kept = {} THEN <<>>
        ELSE SubSeq(s, 1, CHOOSE k \in kept : \A j \in kept : k >= j)

Strip(s, chars) == RStrip(LStrip(s, chars), chars)

\* needle in haystack, for strings
Contains(hay, needle) ==
    \E i \in 0..(Len(hay) - Len(needle)) :
        SubSeq(hay, i + 1, i + Len(needle)) = needle

(***************************************************************************)
(* Section detector.                                                       *)
(***************************************************************************)
SECTION_KEYWORDS == <<
   [section |-> "education",
    words |-> << <<"e","d","u","c","a","t","i","o","n">>,
                 <<"a","c","a","d","e","m","i","c">>,
                 <<"u","n","i","v","e","r","s","i","t","y">>,
                 <<"c","o","l","l","e","g","e">> >>],
   [section |-> "work_experience",
    words |-> << <<"e","x","p","e","r","i","e","n","c","e">>,
                 <<"e","m","p","l","o","y","m","e","n","t">>,
                 <<"c","a","r","e","e","r">>,
                 <<"w","o","r","k"," ","h","i","s","t","o","r","y">> >>],
   [section |-> "skills",
    words |-> << <<"s","k","i","l","l","s">>,
                 <<"t","e","c","h","n","o","l","o","g","i","e","s">>,
                 <<"t","e","c","h","n","i","c","a","l">>,
                 <<"t","o","o","l","s">> >>],
   [section |-> "certifications",
    words |-> << <<"c","e","r","t","i","f","i","c","a","t","i","o","n">>,
                 <<"c","e","r","t","i","f","i","c","a","t","i","o","n","s">>,
                 <<"l","i","c","e","n","s","e","s">>,
                 <<"l","i","c","e","n","s","e">> >>],
   [section |-> "projects",
    words |-> << <<"p","r","o","j","e","c","t">>,
                 <<"p","r","o","j","e","c","t","s">>,
                 <<"p","o","r","t","f","o","l","i","o">> >>],
   [section |-> "publications",
    words |-> << <<"p","u","b","l","i","c","a","t","i","o","n">>,
                 <<"p","u","b","l","i","c","a","t","i","o","n","s">>,
                 <<"p","a","p","e","r","s">>,
                 <<"a","r","t","i","c","l","e","s">> >>],
   [section |-> "languages",
    words |-> << <<"l","a","n","g","u","a","g","e","s">>,
                 <<"l","a","n","g","u","a","g","e">> >>] >>

\* the labels a bucket can have: the keys of SECTION_KEYWORDS, the initial
\* label of detect_sections and the key link_entities fills in
SectionLabels ==
    {SECTION_KEYWORDS[i].section : i \in DOMAIN SECTION_KEYWORDS}
        \cup {"other_sections", "contact"}

NoSection == "none"

\* the first n tokens of the first page: document.pages[0].tokens[:50]
FallbackLimit == 50

\* DocumentContent.tokens: the tokens of all pages, in page order
RECURSIVE Flatten(_)
Flatten(pages) ==
    IF pages = <<>> THEN <<>> ELSE Head(pages) \o Flatten(Tail(pages))

DocTokens(doc) == Flatten(doc.pages)

\* token.text.lower().strip(":")
WordLower(token) == Strip(LowerStr(token.text), {":"})

\* the inner loop of detect_sections: the first section, in the order of
\* SECTION_KEYWORDS, one of whose keywords equals the word
MatchedSection_Substring(word_lower) ==
    LET hits == {i \in DOMAIN SECTION_KEYWORDS :
                    \E k \in DOMAIN SECTION_KEYWORDS[i].words :
                        Contains(word_lower, SECTION_KEYWORDS[i].words[k])}
    IN  IF hits = {} THEN NoSection
        ELSE SECTION_KEYWORDS[CHOOSE i \in hits : \A j \in hits : i <= j].section

MatchedSection(word_lower) ==
    LET hits == {i \in DOMAIN SECTION_KEYWORDS :
                    \E k \in DOMAIN SECTION_KEYWORDS[i].words :
                        SECTION_KEYWORDS[i].words[k] = word_lower}
    IN  IF hits = {} THEN NoSection
        ELSE SECTION_KEYWORDS[CHOOSE i \in hits : \A j \in hits : i <= j].section

\* detect_sections, entered: the empty mapping and the initial label
EmptySections == [l \in SectionLabels |-> <<>>]

\* one iteration of the loop of detect_sections over document.tokens
ScanToken_HeadingToOld ==
    /\ pc = "detect_sections"
    /\ pos <= Len(DocTokens(document))
    /\ LET token == DocTokens(document)[pos]
           matched_section == MatchedSection(WordLower(token))
       IN  /\ sections' = [sections EXCEPT
                              ![current_section] = Append(@, token)]
           /\ current_section' = IF matched_section # NoSection
                                 THEN matched_section ELSE current_section
    /\ pos' = pos + 1
    /\ UNCHANGED <<pc, document, lineVars, dateVars, schemaVars, linkVars>>

ScanToken_KeepHeading ==
    /\ pc = "detect_sections"
    /\ pos <= Len(DocTokens(document))
    /\ LET token == DocTokens(document)[pos]
           matched_section == MatchedSection(WordLower(token))
           target == IF matched_section # NoSection
                     THEN matched_section ELSE current_section
       IN  /\ current_section' = target
           /\ sections' = [sections EXCEPT ![target] = Append(@, token)]
    /\ pos' = pos + 1
    /\ UNCHANGED <<pc, document, lineVars, dateVars, schemaVars, linkVars>>

ScanToken ==
    /\ pc = "detect_sections"
    /\ pos <= Len(DocTokens(document))
    /\ LET token == DocTokens(document)[pos]
           matched_section == MatchedSection(WordLower(token))
       IN  IF matched_section # NoSection
           THEN /\ current_section' = matched_section
                /\ UNCHANGED sections
           ELSE /\ sections' = [sections EXCEPT
                                   ![current_section] = Append(@, token)]
                /\ UNCHANGED current_section
    /\ pos' = pos + 1
    /\ UNCHANGED <<pc, document, lineVars, dateVars, schemaVars, linkVars>>

\* the loop of detect_sections is exhausted: return sections to link_entities
DetectReturn ==
    /\ pc = "detect_sections"
    /\ pos > Len(DocTokens(document))
    /\ pc' = "fallback"
    /\ UNCHANGED <<sectionVars, lineVars, dateVars, schemaVars, linkVars>>

\* document.pages[0].tokens[:50]
FirstPageTokens_NoSlice(doc) == doc.pages[1]
FirstPageTokens(doc) == Slice(doc.pages[1], 0, FallbackLimit)

\* link_entities: the contact fallback, up to the call of extract_contact
ContactFallback ==
    /\ pc = "fallback"
    /\ IF sections["contact"] = <<>> /\ document.pages # <<>>
       THEN sections' = [sections EXCEPT !["contact"] = FirstPageTokens(document)]
       ELSE UNCHANGED sections
    /\ pc' = "linked"
    /\ UNCHANGED <<document, pos, current_section, lineVars, dateVars, schemaVars, linkVars>>


(***************************************************************************)
(* Documents handed to link_entities.                                      *)
(***************************************************************************)
TxtEducation == <<"E","d","u","c","a","t","i","o","n">>
TxtSkillsColons == <<"S","K","I","L","L","S",":",":">>
TxtColonEducation == <<":","e","d","u","c","a","t","i","o","n">>
TxtEducations == <<"e","d","u","c","a","t","i","o","n","s">>
TxtEdu == <<"e","d","u">>
TxtColon == <<":">>
TxtX == <<"x">>
TxtWorkHistory == <<"W","o","r","k"," ","h","i","s","t","o","r","y">>

TokenTexts == {TxtEducation, TxtSkillsColons, TxtColonEducation, TxtEducations,
               TxtEdu, TxtColon, TxtX, TxtWorkHistory}
SecondPageTexts == {TxtX, TxtSkillsColons}
LongPageFirstTexts == {TxtX, TxtEducation}

SeqsUpTo(S, n) == UNION {[1..k -> S] : k \in 0..n}

\* tokens are objects: each carries its position in document.tokens as identity
RECURSIVE MkPages(_, _)
MkPages(textPages, base) ==
    IF textPages = <<>> THEN <<>>
    ELSE <<[i \in DOMAIN Head(textPages) |->
                [id |-> base + i, text |-> Head(textPages)[i]]]>>
         \o MkPages(Tail(textPages), base + Len(Head(textPages)))

MkDoc(textPages) == [pages |-> MkPages(textPages, 0)]

\* the document is one without pages, one of one or two short pages, or one
\* of a single long page whose tokens after the first are fillers
IsModelDocument(doc) ==
    \/ doc = MkDoc(<<>>)
    \/ \E p \in SeqsUpTo(TokenTexts, MaxPattern) : doc = MkDoc(<<p>>)
    \/ \E p \in SeqsUpTo(TokenTexts, MaxPattern) :
          \E q \in SeqsUpTo(SecondPageTexts, MaxSecondPage) :
              doc = MkDoc(<<p, q>>)
    \/ \E t \in LongPageFirstTexts :
          \E n \in (FallbackLimit - 1)..(FallbackLimit + Slack) :
              doc = MkDoc(<<[i \in 1..n |-> IF i = 1 THEN t ELSE TxtX]>>)

IdleSections ==
    /\ document = MkDoc(<<>>)
    /\ pos = 1
    /\ current_section = "other_sections"
    /\ sections = EmptySections

IdleLines ==
    /\ line_input = <<>>
    /\ grouped = <<>>
    /\ text_lines = <<>>
    /\ ingest_lines = <<>>

IdleDates ==
    /\ call = [op |-> "none"]
    /\ ret = None

IdleSchema ==
    /\ payload = None
    /\ resume = None
    /\ dumped = None
    /\ reloaded = None

IdleLink ==
    /\ embeddings = None
    /\ utcnow = None
    /\ earlier = None

\* link_entities(document) entered, detect_sections about to scan
InitSections ==
    /\ pc = "detect_sections"
    /\ IsModelDocument(document)
    /\ pos = 1
    /\ current_section = "other_sections"
    /\ sections = EmptySections
    /\ IdleLines
    /\ IdleDates
    /\ IdleSchema
    /\ IdleLink

NextSections == ScanToken \/ DetectReturn \/ ContactFallback

SpecSections == InitSections /\ [][NextSections]_vars

(***************************************************************************)
(* Claims about the section detector.                                      *)
(***************************************************************************)
AllKeywords ==
    UNION {Range(SECTION_KEYWORDS[i].words) : i \in DOMAIN SECTION_KEYWORDS}
DetectLabels == SectionLabels \ {"contact"}
BucketsOf(token, labels) == {l \in labels : token \in Range(sections[l])}
Colons(n) == [i \in 1..n |-> ":"]

\* s equals the lower-case keyword kw up to the case of its letters
SameIgnoringCase(s, kw) ==
    /\ Len(s) = Len(kw)
    /\ \A i \in DOMAIN s :
          \/ s[i] = kw[i]
          \/ \E j \in DOMAIN LowerChars :
                LowerChars[j] = kw[i] /\ UpperChars[j] = s[i]

\* the text is a colons, one of the keywords kws up to case, and colons again
ColonsKeywordColons(text, kws, a) ==
    \E kw \in kws :
        /\ a + Len(kw) <= Len(text)
        /\ SubSeq(text, 1, a) = Colons(a)
        /\ SameIgnoringCase(SubSeq(text, a + 1, a + Len(kw)), kw)
        /\ SubSeq(text, a + Len(kw) + 1, Len(text)) =
              Colons(Len(text) - a - Len(kw))

\* the text is a keyword followed by colons, up to case
KeywordTrailingColons(text) == ColonsKeywordColons(text, AllKeywords, 0)

\* the text is a keyword between colons, up to case
KeywordBetweenColons(text) ==
    \E a \in 0..Len(text) : ColonsKeywordColons(text, AllKeywords, a)

\* the label of the section whose keyword list holds the keyword of the text
HeadingLabel(text) ==
    LET i == CHOOSE i \in DOMAIN SECTION_KEYWORDS :
                \E a \in 0..Len(text) :
                    ColonsKeywordColons(
                        text, Range(SECTION_KEYWORDS[i].words), a)
    IN  SECTION_KEYWORDS[i].section

\* the positions of the heading tokens among toks
Headings(toks) == {j \in DOMAIN toks : KeywordBetweenColons(toks[j].text)}

\* the label in force when position k is scanned, heads being the headings
LabelBefore(toks, heads, k) ==
    LET hs == {j \in heads : j < k}
    IN  IF hs = {} THEN "other_sections"
        ELSE HeadingLabel(toks[CHOOSE j \in hs : \A h \in hs : h <= j].text)

\* the bucket lists its tokens in document order, each once
InDocumentOrder(bucket) ==
    \A i, j \in DOMAIN bucket : i < j => bucket[i].id < bucket[j].id

\* C1: detect_sections is one left-to-right scan: at every point of it the
\* current label is that of the most recent heading token (other_sections if
\* none), a heading token is in no bucket, every other scanned token is in the
\* bucket of the most recent heading before it and in no other, every bucket
\* lists its tokens in document order, and the token right after an "Education"
\* heading is in the education bucket.
C1_SingleScanBuckets ==
    pc \in {"detect_sections", "fallback"} =>
        LET toks == SubSeq(DocTokens(document), 1, pos - 1)
            heads == Headings(toks)
        IN  /\ current_section = LabelBefore(toks, heads, pos)
            /\ \A k \in DOMAIN toks :
                  BucketsOf(toks[k], SectionLabels) =
                      IF k \in heads THEN {}
                      ELSE {LabelBefore(toks, heads, k)}
            /\ \A l \in SectionLabels : InDocumentOrder(sections[l])
            /\ \A k \in DOMAIN toks :
                  (toks[k].text = TxtEducation /\ k + 1 \in DOMAIN toks
                      /\ k + 1 \notin heads)
                      => /\ toks[k + 1] \in Range(sections["education"])
                         /\ BucketsOf(toks[k], SectionLabels) = {}

C1_Witness ==
    /\ pc = "fallback"
    /\ LET toks == DocTokens(document)
       IN  \E k \in 2..(Len(toks) - 1) :
              /\ toks[k].text = TxtEducation
              /\ toks[k + 1] \in Range(sections["education"])
              /\ toks[k - 1] \in Range(sections["other_sections"])

\* C2 (as claimed): once the buckets are built, every token of the document is
\* in exactly one bucket.
C2_EveryTokenInExactlyOneBucket ==
    pc = "linked" =>
        LET toks == DocTokens(document)
        IN  \A k \in DOMAIN toks :
                Cardinality(BucketsOf(toks[k], SectionLabels)) = 1

\* C2 (amended): once the buckets are built, every token that is not a heading
\* is in exactly one of the buckets detect_sections fills and occurs once in it,
\* a heading token is in none of them, and the contact bucket holds, besides,
\* exactly the tokens among the first 50 of the first page.
C2_NonHeadingInOneDetectBucket ==
    pc = "linked" =>
        LET toks == DocTokens(document)
            heads == Headings(toks)
        IN  /\ \A k \in DOMAIN toks :
                  /\ Cardinality(BucketsOf(toks[k], DetectLabels)) =
                        IF k \in heads THEN 0 ELSE 1
                  /\ (toks[k] \in Range(sections["contact"]))
                        <=> (k <= Min(FallbackLimit, Len(document.pages[1])))
            /\ \A l \in SectionLabels : InDocumentOrder(sections[l])

C2_Witness ==
    /\ pc = "linked"
    /\ LET toks == DocTokens(document)
       IN  /\ \E k \in DOMAIN toks : BucketsOf(toks[k], SectionLabels) = {}
           /\ \E k \in DOMAIN toks :
                 Cardinality(BucketsOf(toks[k], SectionLabels)) = 2
           /\ \E k \in DOMAIN toks :
                 /\ KeywordBetweenColons(toks[k].text)
                 /\ BucketsOf(toks[k], SectionLabels) = {"contact"}

\* C3 (as claimed): a token switches the section (and is kept in no bucket) if
\* and only if its text, lower-cased and with trailing colons removed, is a
\* section keyword.
C3_SwitchIffKeywordTrailingColons ==
    pc = "fallback" =>
        LET toks == DocTokens(document)
        IN  \A k \in DOMAIN toks :
                (BucketsOf(toks[k], SectionLabels) = {})
                    <=> KeywordTrailingColons(toks[k].text)

\* C3 (amended): a token switches the section (and is kept in no bucket) if
\* and only if its text, lower-cased and with leading and trailing colons
\* removed, is a section keyword, and then the content token after it is in
\* that keyword's bucket; every other token, also one that merely contains a
\* keyword or is contained in one, is kept as content.
C3_SwitchIffKeywordBetweenColons ==
    pc = "fallback" =>
        LET toks == DocTokens(document)
        IN  \A k \in DOMAIN toks :
                /\ (BucketsOf(toks[k], SectionLabels) = {})
                      <=> KeywordBetweenColons(toks[k].text)
                /\ ( /\ KeywordBetweenColons(toks[k].text)
                     /\ k + 1 <= Len(toks)
                     /\ ~KeywordBetweenColons(toks[k + 1].text) )
                      => toks[k + 1] \in
                            Range(sections[HeadingLabel(toks[k].text)])

C3_Witness ==
    /\ pc = "fallback"
    /\ LET toks == DocTokens(document)
       IN  \E i, j, k \in DOMAIN toks :
              /\ toks[i].text = TxtColonEducation
              /\ toks[j].text = TxtEducations
              /\ toks[j] \in Range(sections["education"])
              /\ toks[k].text = TxtSkillsColons
              /\ i < j /\ j < k

\* C4: after the contact fallback of link_entities the contact bucket is the
\* first min(50, n) tokens of the first page, in page order, and is empty when
\* the document has no pages.
C4_ContactIsFirstTokensOfFirstPage ==
    pc = "linked" =>
        IF document.pages = <<>>
        THEN sections["contact"] = <<>>
        ELSE /\ Len(sections["contact"]) =
                    Min(FallbackLimit, Len(document.pages[1]))
             /\ \A i \in DOMAIN sections["contact"] :
                    sections["contact"][i] = document.pages[1][i]

C4_Witness ==
    /\ pc = "linked"
    /\ document.pages # <<>>
    /\ Len(document.pages[1]) > FallbackLimit
    /\ Len(sections["contact"]) = FallbackLimit


(***************************************************************************)
(* Line grouper.                                                           *)
(***************************************************************************)
\* the bucket size of token.bbox.y0 // 10
LineBucket == 10

\* the line index of a token: metadata.get("line"), or y0 // 10 when it is None
LineIndex_FalsyZero(token) ==
    IF "line" \in DOMAIN token.metadata /\ token.metadata["line"] # 0
    THEN token.metadata["line"]
    ELSE token.bbox.y0 \div LineBucket

LineIndex(token) ==
    IF "line" \in DOMAIN token.metadata
    THEN token.metadata["line"]
    ELSE token.bbox.y0 \div LineBucket

\* sorted(...) of a set of integers
RECURSIVE SortedInts(_)
SortedInts(S) ==
    IF S = {} THEN <<>>
    ELSE LET m == CHOOSE x \in S : \A y \in S : x <= y
         IN  <<m>> \o SortedInts(S \ {m})

\* postprocessing.group_tokens_by_line: the tokens of each line index in
\* arrival order, the lines by ascending index
GroupTokensByLine(tokens) ==
    LET keys == SortedInts({LineIndex(tokens[i]) : i \in DOMAIN tokens})
    IN  [n \in DOMAIN keys |->
            LET OnLine(t) == LineIndex(t) = keys[n]
            IN  [index |-> keys[n], tokens |-> SelectSeq(tokens, OnLine)]]

\* sorted(line_tokens, key=lambda item: item.bbox.x0): a stable sort
RECURSIVE SortedByX0(_)
SortedByX0(tokens) ==
    IF tokens = <<>> THEN <<>>
    ELSE LET last == tokens[Len(tokens)]
             front == SortedByX0(SubSeq(tokens, 1, Len(tokens) - 1))
             NotAfter(t) == t.bbox.x0 <= last.bbox.x0
             After(t) == t.bbox.x0 > last.bbox.x0
         IN  SelectSeq(front, NotAfter) \o <<last>> \o SelectSeq(front, After)

\* ingestion._group_tokens_by_line: as above, each line sorted by x0
IngestGroupTokensByLine(tokens) ==
    LET lines == GroupTokensByLine(tokens)
    IN  [n \in DOMAIN lines |-> SortedByX0(lines[n].tokens)]

\* " ".join(parts)
RECURSIVE JoinWithSpace(_)
JoinWithSpace(parts) ==
    IF parts = <<>> THEN <<>>
    ELSE IF Len(parts) = 1 THEN parts[1]
    ELSE parts[1] \o <<" ">> \o JoinWithSpace(Tail(parts))

\* the characters str.strip() removes
Whitespace == {" ", "\t", "\n", "\r"}

\* _join_tokens
JoinTokens(tokens) ==
    Strip(JoinWithSpace([i \in DOMAIN tokens |-> tokens[i].text]), Whitespace)

\* tokens_to_lines: the joined text of every line that has text
TokensToLines(tokens) ==
    LET grp == GroupTokensByLine(tokens)
        texts == [n \in DOMAIN grp |-> JoinTokens(grp[n].tokens)]
        NonEmpty(line_text) == line_text # <<>>
    IN  SelectSeq(texts, NonEmpty)

GroupTokensByLineCall ==
    /\ pc = "lines_ready"
    /\ grouped' = GroupTokensByLine(line_input)
    /\ pc' = "grouped"
    /\ UNCHANGED <<line_input, text_lines, ingest_lines, sectionVars, dateVars, schemaVars, linkVars>>

TokensToLinesCall ==
    /\ pc = "lines_ready"
    /\ text_lines' = TokensToLines(line_input)
    /\ pc' = "text_lines"
    /\ UNCHANGED <<line_input, grouped, ingest_lines, sectionVars, dateVars, schemaVars, linkVars>>

IngestGroupTokensByLineCall ==
    /\ pc = "lines_ready"
    /\ ingest_lines' = IngestGroupTokensByLine(line_input)
    /\ pc' = "ingest_grouped"
    /\ UNCHANGED <<line_input, grouped, text_lines, sectionVars, dateVars, schemaVars, linkVars>>

\* the tokens handed to the line grouper: the k-th to arrive carries the k-th
\* letter as its text
X0Values == {10, 40}
Y0Values == {5, 12, 19}
MetadataValues ==
    {[column_id |-> 0], [column_id |-> 0, line |-> 0], [column_id |-> 0, line |-> 2]}

MkLineTokens(f) ==
    [i \in DOMAIN f |->
        [id |-> i, text |-> <<LowerChars[i]>>,
         bbox |-> [x0 |-> f[i][1], y0 |-> f[i][2],
                   x1 |-> f[i][1] + 20, y1 |-> f[i][2] + 8],
         page |-> 0, metadata |-> f[i][3]]]

InitLines ==
    /\ pc = "lines_ready"
    /\ \E n \in 0..MaxTokens :
          \E f \in [1..n -> X0Values \X Y0Values \X MetadataValues] :
              line_input = MkLineTokens(f)
    /\ grouped = <<>>
    /\ text_lines = <<>>
    /\ ingest_lines = <<>>
    /\ IdleSections
    /\ IdleDates
    /\ IdleSchema
    /\ IdleLink

NextLines ==
    GroupTokensByLineCall \/ TokensToLinesCall \/ IngestGroupTokensByLineCall

SpecLines == InitLines /\ [][NextLines]_vars

(***************************************************************************)
(* Claims about the line grouper.                                          *)
(***************************************************************************)
\* the places <<line, position>> of a token in the grouped lines
PlacesOf(token) ==
    {p \in (DOMAIN grouped) \X (1..(MaxTokens + 1)) :
        /\ p[2] \in DOMAIN grouped[p[1]].tokens
        /\ grouped[p[1]].tokens[p[2]] = token}

\* the line index the claim gives a token
ClaimedLineIndex(token) ==
    IF "line" \in DOMAIN token.metadata
    THEN token.metadata["line"]
    ELSE CHOOSE q \in 0..100 :
            LineBucket * q <= token.bbox.y0 /\ token.bbox.y0 < LineBucket * (q + 1)

\* C5: the line grouper puts every input token in exactly one line, whose
\* index is the token's metadata 'line' when set (0 included) and y0 // 10
\* otherwise, adds no token, and returns the lines by strictly increasing index.
C5_EveryTokenInItsLine ==
    pc = "grouped" =>
        /\ \A k \in DOMAIN line_input :
              /\ Cardinality(PlacesOf(line_input[k])) = 1
              /\ \A p \in PlacesOf(line_input[k]) :
                    grouped[p[1]].index = ClaimedLineIndex(line_input[k])
        /\ \A n \in DOMAIN grouped :
              /\ grouped[n].tokens # <<>>
              /\ Range(grouped[n].tokens) \subseteq Range(line_input)
        /\ \A m, n \in DOMAIN grouped :
              m < n => grouped[m].index < grouped[n].index

C5_Witness ==
    /\ pc = "grouped"
    /\ Len(grouped) = 2
    /\ \E i, j \in DOMAIN line_input :
          /\ "line" \in DOMAIN line_input[i].metadata
          /\ line_input[i].bbox.y0 = 12
          /\ line_input[i] \in Range(grouped[1].tokens)
          /\ "line" \notin DOMAIN line_input[j].metadata
          /\ line_input[j].bbox.y0 = 19
          /\ line_input[j] \in Range(grouped[2].tokens)
          /\ j < i

\* C6: within every line the line grouper of the field extractors produces
\* (group_tokens_by_line, and so the line texts of tokens_to_lines), tokens are
\* ordered by ascending x0, whatever order they arrived in.
C6_LineTokensAscendingX0 ==
    /\ pc = "grouped" =>
          \A n \in DOMAIN grouped :
              \A i, j \in DOMAIN grouped[n].tokens :
                  i < j => grouped[n].tokens[i].bbox.x0
                              <= grouped[n].tokens[j].bbox.x0
    /\ pc = "text_lines" =>
          LET lines == IngestGroupTokensByLine(line_input)
          IN  text_lines = [n \in DOMAIN lines |-> JoinTokens(lines[n])]


(***************************************************************************)
(* Date normalizer.                                                        *)
(***************************************************************************)
IsDigit(c) == c \in Range(DigitChars)
Letters == Range(LowerChars) \cup Range(UpperChars)
Dashes == {"-", "EN_DASH"}

\* the least and the greatest of a set of positions
Leftmost(S) == CHOOSE k \in S : \A j \in S : k <= j
Rightmost(S) == CHOOSE k \in S : \A j \in S : k >= j

\* the position after the longest run, from position i, of characters in
\* chars (RunEnd) or not in chars (RunEndNot)
RunEnd(t, i, chars) ==
    LET stops == {k \in i..Len(t) : t[k] \notin chars}
    IN  IF stops # {} THEN CHOOSE k \in stops : \A j \in stops : k <= j
        ELSE IF i > Len(t) THEN i ELSE Len(t) + 1

RunEndNot(t, i, chars) ==
    LET stops == {k \in i..Len(t) : t[k] \in chars}
    IN  IF stops # {} THEN CHOOSE k \in stops : \A j \in stops : k <= j
        ELSE IF i > Len(t) THEN i ELSE Len(t) + 1

AllDigits(t, i, n) ==
    /\ i + n - 1 <= Len(t)
    /\ \A k \in i..(i + n - 1) : IsDigit(t[k])

\* the month alternatives of DATE_PATTERNS[0], in the order of the pattern
MONTH_ALTERNATIVES == <<
    <<"j","a","n">>, <<"f","e","b">>, <<"m","a","r">>, <<"a","p","r">>,
    <<"m","a","y">>, <<"j","u","n">>, <<"j","u","l">>, <<"a","u","g">>,
    <<"s","e","p">>, <<"s","e","p","t">>, <<"o","c","t">>, <<"n","o","v">>,
    <<"d","e","c">> >>

NoMatch == [matched |-> FALSE]

\* DATE_PATTERNS[0] tried at position i with the month alternative alt:
\* month, [a-z]* (any letters, re.I), \s+, \d{4}
\* the alternative alt spans i..j-1, [a-z]* ends before k, \s+ before m
MonthYearSpans(t, i, j, k, m, alt) ==
    IF /\ j - 1 <= Len(t)
       /\ LowerStr(SubSeq(t, i, j - 1)) = alt
       /\ m > k
       /\ AllDigits(t, m, 4)
    THEN [matched |-> TRUE, year |-> SubSeq(t, m, m + 3),
          has_month |-> TRUE, month |-> SubSeq(t, i, j - 1)]
    ELSE NoMatch

MonthYearAfter(t, i, j, k, alt) ==
    MonthYearSpans(t, i, j, k, RunEnd(t, k, Whitespace), alt)

MonthYearAt(t, i, alt) ==
    MonthYearAfter(t, i, i + Len(alt), RunEnd(t, i + Len(alt), Letters), alt)

\* the month alternatives that match at position i
AlternativesAt(t, i) ==
    {a \in DOMAIN MONTH_ALTERNATIVES :
        MonthYearAt(t, i, MONTH_ALTERNATIVES[a]).matched}

\* the match at position i: the first alternative that matches there
FirstMonthYearAt(t, i, as) ==
    IF as = {} THEN NoMatch ELSE MonthYearAt(t, i, MONTH_ALTERNATIVES[Leftmost(as)])

\* the match at the leftmost of the positions hits, if there is one
LeftmostMonthYear(t, hits) ==
    IF hits = {} THEN NoMatch
    ELSE FirstMonthYearAt(t, Leftmost(hits), AlternativesAt(t, Leftmost(hits)))

\* DATE_PATTERNS[0].search(text): the leftmost position, the first alternative
SearchMonthYear(t) ==
    LeftmostMonthYear(t, {i \in DOMAIN t : AlternativesAt(t, i) # {}})

\* DATE_PATTERNS[1].search(text): the leftmost \d{4}, then the optional
\* [-/]\d{1,2}, as long as it can be
SearchYearMonth(t) ==
    LET hits == {i \in DOMAIN t : AllDigits(t, i, 4)}
    IN  IF hits = {} THEN NoMatch
        ELSE LET i == CHOOSE x \in hits : \A y \in hits : x <= y
                 sep == i + 4 <= Len(t) /\ t[i + 4] \in {"-", "/"}
                 n == IF sep /\ AllDigits(t, i + 5, 2) THEN 2
                      ELSE IF sep /\ AllDigits(t, i + 5, 1) THEN 1
                      ELSE 0
             IN  [matched |-> TRUE, year |-> SubSeq(t, i, i + 3),
                  has_month |-> n > 0, month |-> SubSeq(t, i + 5, i + 4 + n)]

\* the patterns in the order normalize_date tries them
DATE_PATTERNS == <<1, 2>>

PatternSearch(p, t) == IF p = 1 THEN SearchMonthYear(t) ELSE SearchYearMonth(t)

\* int(s) for a string of decimal digits
RECURSIVE IntOfDigits(_)
IntOfDigits(s) ==
    IF s = <<>> THEN 0
    ELSE 10 * IntOfDigits(SubSeq(s, 1, Len(s) - 1))
         + (CHOOSE d \in 0..9 : DigitChars[d + 1] = s[Len(s)])

\* datetime.strptime(s, "%b").month: the month of an abbreviated English
\* month name in any case, ValueError for anything else
MonthAbbreviations == <<
    <<"j","a","n">>, <<"f","e","b">>, <<"m","a","r">>, <<"a","p","r">>,
    <<"m","a","y">>, <<"j","u","n">>, <<"j","u","l">>, <<"a","u","g">>,
    <<"s","e","p">>, <<"o","c","t">>, <<"n","o","v">>, <<"d","e","c">> >>

StrptimeMonthName(s) ==
    IF \E n \in DOMAIN MonthAbbreviations : MonthAbbreviations[n] = LowerStr(s)
    THEN IntVal(CHOOSE n \in DOMAIN MonthAbbreviations :
                MonthAbbreviations[n] = LowerStr(s))
    ELSE Raised("ValueError")

\* format(n, "02d") for n >= 0
RECURSIVE DecimalDigits(_)
DecimalDigits(n) ==
    IF n < 10 THEN <<DigitChars[n + 1]>>
    ELSE DecimalDigits(n \div 10) \o <<DigitChars[(n % 10) + 1]>>

Format02d_NoPadding(n) == DecimalDigits(n)
Format02d(n) == IF n < 10 THEN <<"0">> \o DecimalDigits(n) ELSE DecimalDigits(n)

\* the try block of normalize_date: the month number of the matched month
MonthNumber(month) ==
    IF Len(month) = 2 /\ \A i \in DOMAIN month : IsDigit(month[i])
    THEN IntVal(IntOfDigits(month))
    ELSE StrptimeMonthName(Slice(month, 0, 3))

\* the body of the loop of normalize_date for one pattern: a value to return,
\* or "continue" (no match, or the ValueError of the month caught)
Continue == [kind |-> "continue"]

\* f"{year}-{month_number:02d}"; the ValueError of the month number is
\* caught (continue) or not
YearMonth(year, month_number, caught) ==
    IF month_number.kind = "raise"
    THEN IF caught THEN Continue ELSE month_number
    ELSE StrVal(year \o <<"-">> \o Format02d(month_number.n))

\* the statements after match = pattern.search(text)
DateOfMatch(match, caught) ==
    IF ~match.matched THEN Continue
    ELSE IF match.has_month /\ match.month # <<>>
    THEN YearMonth(match.year, MonthNumber(match.month), caught)
    ELSE StrVal(match.year)

TryPattern_Uncaught(p, t) == DateOfMatch(PatternSearch(p, t), FALSE)

TryPattern(p, t) == DateOfMatch(PatternSearch(p, t), TRUE)

StrPresent == <<"p","r","e","s","e","n","t">>
StrCurrent == <<"c","u","r","r","e","n","t">>

\* normalize_date after the loop: the sentinel or None
AfterPatterns(t) ==
    IF Contains(LowerStr(t), StrPresent) \/ Contains(LowerStr(t), StrCurrent)
    THEN StrVal(StrPresent)
    ELSE None

\* the loop of normalize_date over the patterns from the n-th on
RECURSIVE PatternLoop(_, _)
ReturnOrContinue(r, n, t) ==
    IF r.kind = "continue" THEN PatternLoop(n + 1, t) ELSE r

PatternLoop(n, t) ==
    IF n > Len(DATE_PATTERNS) THEN AfterPatterns(t)
    ELSE ReturnOrContinue(TryPattern(DATE_PATTERNS[n], t), n, t)

\* normalize_date
NormalizeDate(text) == PatternLoop(1, Strip(text, Whitespace))

\* DATE_RANGE_PATTERN.search(text): the leftmost position of a character other
\* than a dash whose run of such characters ends at a dash that is followed by
\* a character other than a newline; start is the run, end the rest of the line
RangeAt(t, i) ==
    LET j == RunEndNot(t, i, Dashes)
        e == RunEndNot(t, j + 1, {"\n"})
    IN  IF j > i /\ j <= Len(t) /\ e > j + 1
        THEN [matched |-> TRUE, start |-> SubSeq(t, i, j - 1),
              end |-> SubSeq(t, j + 1, e - 1)]
        ELSE NoMatch

LeftmostRange(t, hits) ==
    IF hits = {} THEN NoMatch ELSE RangeAt(t, Leftmost(hits))

SearchDateRange(t) == LeftmostRange(t, {i \in DOMAIN t : RangeAt(t, i).matched})

\* a function that raises lets the exception through, otherwise builds the tuple
PairOrRaise(a, b) ==
    IF a.kind = "raise" THEN a ELSE IF b.kind = "raise" THEN b ELSE TupleVal(a, b)

\* normalize_date_range after match = DATE_RANGE_PATTERN.search(text)
RangeOfMatch(text, match) ==
    IF match.matched
    THEN PairOrRaise(NormalizeDate(match.start), NormalizeDate(match.end))
    ELSE PairOrRaise(NormalizeDate(text), None)

\* normalize_date_range
NormalizeDateRange(text) == RangeOfMatch(text, SearchDateRange(text))


\* datetime.strptime(s, "%Y-%m"): \d\d\d\d, "-", 1[0-2]|0[1-9]|[1-9], nothing
\* left over, and a year datetime accepts (1..9999); ValueError otherwise
\* the number of digits %m takes, given the number two that the two
\* characters after the "-" spell (0 when they are not two digits)
MonthDigits(s, two) ==
    IF two >= 10 /\ two <= 12 THEN 2
    ELSE IF two >= 1 /\ two <= 9 THEN 2
    ELSE IF AllDigits(s, 6, 1) /\ s[6] # "0" THEN 1
    ELSE 0

YearMonthOfDigits(s, n) ==
    IF /\ AllDigits(s, 1, 4)
       /\ Len(s) >= 5 /\ s[5] = "-"
       /\ n > 0
       /\ Len(s) = 5 + n
       /\ IntOfDigits(SubSeq(s, 1, 4)) >= 1
    THEN [kind |-> "datetime",
          year |-> IntOfDigits(SubSeq(s, 1, 4)),
          month |-> IntOfDigits(SubSeq(s, 6, 5 + n))]
    ELSE Raised("ValueError")

StrptimeYearMonth(s) ==
    YearMonthOfDigits(s, MonthDigits(s, IF AllDigits(s, 6, 2)
                                        THEN IntOfDigits(SubSeq(s, 6, 7))
                                        ELSE 0))

\* if len(d) == 4: d += "-01"
PadYear(d) == IF Len(d) = 4 THEN d \o <<"-","0","1">> ELSE d

\* max(months, 0)
ClampMonths_Unclamped(months) == months
ClampMonths(months) == IF months >= 0 THEN months ELSE 0

\* the months from start_date to end_date, clamped; end_date is parsed first,
\* so its ValueError is the one that leaves compute_duration
MonthsFromTo(start_date, end_date) ==
    IF end_date.kind = "raise" THEN end_date
    ELSE IF start_date.kind = "raise" THEN start_date
    ELSE IntVal(ClampMonths((end_date.year - start_date.year) * 12
                            + (end_date.month - start_date.month)))

\* compute_duration; now is the value of datetime.utcnow()
ComputeDuration(start, end, now) ==
    IF start = None \/ start = StrVal(<<>>) \/ start = StrVal(StrPresent)
    THEN None
    ELSE MonthsFromTo(
             StrptimeYearMonth(PadYear(start.s)),
             IF end = None \/ end = StrVal(StrPresent)
             THEN [kind |-> "datetime", year |-> now.year, month |-> now.month]
             ELSE StrptimeYearMonth(PadYear(end.s)))

NormalizeDateCall ==
    /\ pc = "date_call"
    /\ call.op = "normalize_date"
    /\ ret' = NormalizeDate(call.text)
    /\ pc' = "date_done"
    /\ UNCHANGED <<call, sectionVars, lineVars, schemaVars, linkVars>>

NormalizeDateRangeCall ==
    /\ pc = "date_call"
    /\ call.op = "normalize_date_range"
    /\ ret' = NormalizeDateRange(call.text)
    /\ pc' = "date_done"
    /\ UNCHANGED <<call, sectionVars, lineVars, schemaVars, linkVars>>

ComputeDurationCall ==
    /\ pc = "date_call"
    /\ call.op = "compute_duration"
    /\ ret' = ComputeDuration(call.start, call.end, call.now)
    /\ pc' = "date_done"
    /\ UNCHANGED <<call, sectionVars, lineVars, schemaVars, linkVars>>

(***************************************************************************)
(* Arguments of the date normalizer.                                       *)
(***************************************************************************)
\* a year as YYYY, a year and a month as YYYY-MM
DigitOf(n, unit) == DigitChars[((n \div unit) % 10) + 1]
FormatYear(y) ==
    <<DigitOf(y, 1000), DigitOf(y, 100), DigitOf(y, 10), DigitOf(y, 1)>>
FormatYearMonth(y, m) == FormatYear(y) \o <<"-", DigitOf(m, 10), DigitOf(m, 1)>>

Years == {1, 1999, 2019, 2020}
Months == 1..12
CanonicalDates ==
    {FormatYear(y) : y \in Years}
        \cup {FormatYearMonth(y, m) : y \in Years, m \in Months}

\* texts put together from fragments
Fragments == {
    <<"J","a","n"," ","2","0","1","9">>,
    <<"s","e","p","t","e","m","b","e","r"," "," ","2","0","2","0">>,
    <<"J","a","n">>, <<"2","0","1","9">>, <<"2","0","1","9","-","5">>,
    <<"-","0","5">>, <<"/","1","3">>, <<"2","0">>, <<" ">>,
    <<"-">>, <<"EN_DASH">>,
    <<"P","r","e","s","e","n","t">>, <<"c","u","r","r","e","n","t">>, <<"x">> }

RECURSIVE Concat(_)
Concat(parts) == IF parts = <<>> THEN <<>> ELSE Head(parts) \o Concat(Tail(parts))

FragmentTexts(n) == {Concat(f) : f \in SeqsUpTo(Fragments, n)}

DateTexts(n) ==
    CanonicalDates \cup {FormatYear(0), FormatYearMonth(0, 1)}
        \cup FragmentTexts(n)

\* date expressions joined by " - " into a range
DateExpressions == {
    <<"2","0","1","9">>, <<"2","0","1","9","-","0","1">>,
    <<"2","0","2","0","-","0","5">>, <<"2","0","1","9","/","0","5">>,
    <<"J","a","n"," ","2","0","1","9">>,
    <<"S","e","p","t","e","m","b","e","r"," ","2","0","2","0">>,
    <<"P","r","e","s","e","n","t">>, <<"x">> }

RangeSeparator == <<" ", "-", " ">>
RangeTexts(n) ==
    {a \o RangeSeparator \o b : a \in DateExpressions, b \in DateExpressions}
        \cup FragmentTexts(n)

DurationDates ==
    {None, StrVal(<<>>), StrVal(StrPresent)}
        \cup {StrVal(d) : d \in CanonicalDates}
        \cup {StrVal(FormatYear(0)), StrVal(<<"2","0","1","9","-","1","3">>),
              StrVal(<<"2","0","1","9","-","5">>),
              StrVal(<<"P","r","e","s","e","n","t">>)}

NowValues == {[year |-> 2019, month |-> 6], [year |-> 2026, month |-> 11]}

IsModelDateCall(c) ==
    \/ \E t \in DateTexts(MaxFrags) : c = [op |-> "normalize_date", text |-> t]
    \/ \E t \in RangeTexts(MaxFrags) :
          c = [op |-> "normalize_date_range", text |-> t]
    \/ \E a \in DurationDates : \E b \in DurationDates : \E n \in NowValues :
          c = [op |-> "compute_duration", start |-> a, end |-> b, now |-> n]

InitDates ==
    /\ pc = "date_call"
    /\ IsModelDateCall(call)
    /\ ret = None
    /\ IdleSections
    /\ IdleLines
    /\ IdleSchema
    /\ IdleLink

NextDates == NormalizeDateCall \/ NormalizeDateRangeCall \/ ComputeDurationCall

SpecDates == InitDates /\ [][NextDates]_vars


(***************************************************************************)
(* Claims about the date normalizer.                                       *)
(***************************************************************************)
\* the text is YYYY, or YYYY-MM with MM one of 01..12
IsCanonicalDate(t) ==
    \/ Len(t) = 4 /\ \A i \in 1..4 : IsDigit(t[i])
    \/ /\ Len(t) = 7
       /\ \A i \in 1..4 : IsDigit(t[i])
       /\ t[5] = "-"
       /\ \E m \in Months : <<t[6], t[7]>> = <<DigitOf(m, 10), DigitOf(m, 1)>>

\* C7: normalize_date returns a canonical date YYYY or YYYY-MM (month 01..12)
\* unchanged, and maps each of its own string results to itself.
C7_CanonicalDateIsFixedPoint ==
    (pc = "date_done" /\ call.op = "normalize_date") =>
        /\ IsCanonicalDate(call.text) => ret = StrVal(call.text)
        /\ ret.kind = "str" => NormalizeDate(ret.s) = ret

C7_Witness ==
    /\ pc = "date_done"
    /\ call.op = "normalize_date"
    /\ call.text = FormatYearMonth(2019, 9)
    /\ ret = StrVal(call.text)

\* the two digits of the month whose English abbreviation starts the name
MonthNameDigits(name) ==
    LET n == CHOOSE n \in DOMAIN MonthAbbreviations :
                MonthAbbreviations[n] = LowerStr(SubSeq(name, 1, 3))
    IN  <<DigitOf(n, 10), DigitOf(n, 1)>>

\* C8: normalize_date returns the result of the 'Month YYYY' pattern when it
\* matches, otherwise that of the bare year pattern when it yields one (a year,
\* or a year with a two-digit month), otherwise 'present' when the text
\* contains 'present' or 'current' in any case, otherwise None; it never raises.
C8_PatternsThenSentinelThenNone ==
    (pc = "date_done" /\ call.op = "normalize_date") =>
        LET t == Strip(call.text, Whitespace)
            m1 == SearchMonthYear(t)
            m2 == SearchYearMonth(t)
            date1 == m1.matched
            date2 == m2.matched /\ (~m2.has_month \/ Len(m2.month) = 2)
            sentinel == \/ Contains(LowerStr(t), StrPresent)
                        \/ Contains(LowerStr(t), StrCurrent)
        IN  /\ ret.kind \in {"str", "none"}
            /\ date1 => ret = StrVal(m1.year \o <<"-">> \o MonthNameDigits(m1.month))
            /\ (~date1 /\ date2) =>
                  ret = IF m2.has_month
                        THEN StrVal(m2.year \o <<"-">> \o m2.month)
                        ELSE StrVal(m2.year)
            /\ (~date1 /\ ~date2) =>
                  ret = IF sentinel THEN StrVal(StrPresent) ELSE None
            /\ ret = StrVal(StrPresent) => (~date1 /\ ~date2 /\ sentinel)

C8_Witness ==
    /\ pc = "date_done"
    /\ call.op = "normalize_date"
    /\ LET m2 == SearchYearMonth(Strip(call.text, Whitespace))
       IN  m2.matched /\ m2.has_month /\ Len(m2.month) = 1
    /\ ret = StrVal(StrPresent)

\* C9: normalize_date_range splits at the range dash and normalizes each half:
\* for date expressions A and B, A + ' - ' + B gives (normalize_date(A),
\* normalize_date(B)), also when A or B is a canonical YYYY-MM date; a text
\* without hyphen or en-dash gives (normalize_date(text), None).
C9_RangeIsPairOfNormalizedHalves ==
    (pc = "date_done" /\ call.op = "normalize_date_range") =>
        /\ \A a, b \in DateExpressions :
              call.text = a \o RangeSeparator \o b
                  => ret = TupleVal(NormalizeDate(a), NormalizeDate(b))
        /\ (Range(call.text) \cap Dashes = {})
              => ret = TupleVal(NormalizeDate(call.text), None)

\* the year and month a canonical date of the model's years stands for, a bare
\* year standing for its month 01
IsModelDate(d) ==
    /\ d.kind = "str"
    /\ \E y \in Years :
          \/ d.s = FormatYear(y)
          \/ \E m \in Months : d.s = FormatYearMonth(y, m)

YearOfDate(d) == CHOOSE y \in Years : SubSeq(d.s, 1, 4) = FormatYear(y)
MonthOfDate(d) ==
    IF Len(d.s) = 4 THEN 1
    ELSE CHOOSE m \in Months : d.s = FormatYearMonth(YearOfDate(d), m)
MonthsBetween(a, b) ==
    (YearOfDate(b) - YearOfDate(a)) * 12 + (MonthOfDate(b) - MonthOfDate(a))

\* the ends the monotonicity of compute_duration is probed with
LaterEnds ==
    {FormatYear(y) : y \in Years}
        \cup {FormatYearMonth(y, m) : y \in Years, m \in {1, 2, 7, 12}}

ListVal(items) == [kind |-> "list", items |-> items]
DictVal(d) == [kind |-> "dict", d |-> d]
Instance(cls, f) == [kind |-> "object", cls |-> cls, f |-> f]
EmptyDict == DictVal(<<>>)

\* bool(value)
Truthy(value) ==
    CASE value.kind = "none" -> FALSE
      [] value.kind = "str" -> value.s # <<>>
      [] value.kind = "int" -> value.n # 0
      [] value.kind = "list" -> value.items # <<>>
      [] value.kind = "dict" -> DOMAIN value.d # {}
      [] OTHER -> TRUE

\* mapping.get(key, default)
Get(mapping, key, default) ==
    IF key \in DOMAIN mapping.d THEN mapping.d[key] ELSE default

\* the first exception among the values of a sequence, in its order
FirstRaised(values) ==
    LET raised == {i \in DOMAIN values : values[i].kind = "raise"}
    IN  values[CHOOSE i \in raised : \A j \in raised : i <= j]

AnyRaised(values) == \E i \in DOMAIN values : values[i].kind = "raise"

StrCapitalPresent == <<"P", "r", "e", "s", "e", "n", "t">>

\* _normalize_present
NormalizePresent(value) ==
    IF LowerStr(value.s) = StrPresent THEN StrVal(StrCapitalPresent) ELSE value

\* datetime.strptime(s, "%Y"): \d\d\d\d, nothing left over, and a year
\* datetime accepts (1..9999); ValueError otherwise
StrptimeYear(s) ==
    IF Len(s) = 4 /\ AllDigits(s, 1, 4) /\ IntOfDigits(s) >= 1
    THEN [kind |-> "datetime", year |-> IntOfDigits(s), month |-> 1]
    ELSE Raised("ValueError")

\* datetime.strptime(normalized, ...); return normalized: the ValueError of
\* strptime leaves _validate_date
ReturnedUnlessRaised(normalized, parsed) ==
    IF parsed.kind = "raise" THEN Raised("ValueError") ELSE StrVal(normalized)

\* _validate_date after normalized = value.strip()
ValidateStripped(normalized) ==
    IF normalized = <<>> THEN None
    ELSE IF LowerStr(normalized) = StrPresent THEN StrVal(StrCapitalPresent)
    ELSE IF Len(normalized) = 4
    THEN ReturnedUnlessRaised(normalized, StrptimeYear(normalized))
    ELSE ReturnedUnlessRaised(normalized, StrptimeYearMonth(normalized))

\* _validate_date; a value without strip() raises AttributeError
ValidateDate(value) ==
    IF value = None THEN None
    ELSE IF value.kind # "str" THEN Raised("AttributeError")
    ELSE ValidateStripped(Strip(value.s, Whitespace))

\* the fields of the dataclasses, and the default of each
EntityFields ==
    [Contact |-> {"name", "email", "phone", "website", "location", "raw"},
     Education |-> {"institution", "degree", "field_of_study", "start_date",
                    "end_date", "grade", "location"},
     WorkExperience |-> {"company", "position", "start_date", "end_date",
                         "duration_months", "location", "description"},
     Skill |-> {"name", "category", "proficiency"},
     Certification |-> {"name", "issuer", "date"},
     Project |-> {"name", "role", "start_date", "end_date", "description",
                  "technologies"},
     Publication |-> {"title", "venue", "date", "description"},
     Language |-> {"name", "proficiency"},
     OtherSection |-> {"label", "content"},
     Meta |-> {"source", "notes"}]

FieldDefault(cls, key) ==
    IF \/ cls = "WorkExperience" /\ key = "description"
       \/ cls = "Project" /\ key = "technologies"
    THEN ListVal(<<>>)
    ELSE None

\* if self.start_date: self.start_date = _validate_date(self.start_date)
CheckedStartDate(f) ==
    IF Truthy(f.start_date) THEN ValidateDate(f.start_date) ELSE f.start_date

\* if self.end_date: _normalize_present of a string, then _validate_date
CheckedEndDate(f) ==
    IF Truthy(f.end_date)
    THEN ValidateDate(IF f.end_date.kind = "str"
                      THEN NormalizePresent(f.end_date)
                      ELSE f.end_date)
    ELSE f.end_date

\* if self.date: try _validate_date, and keep the value on ValueError
KeptOnValueError(given, validated) ==
    IF validated = Raised("ValueError") THEN given ELSE validated

CheckedDate(f) ==
    IF Truthy(f.date) THEN KeptOnValueError(f.date, ValidateDate(f.date))
    ELSE f.date

\* [item.strip() for item in value if item and item.strip()]: the items of a
\* list, or the characters of a string; None and an integer are not iterable
StrippedItem(item) ==
    IF ~Truthy(item) THEN None
    ELSE IF item.kind # "str" THEN Raised("AttributeError")
    ELSE StrVal(Strip(item.s, Whitespace))

\* the comprehension over the items: the first exception of an item leaves it
KeptItems(stripped) ==
    IF AnyRaised(stripped) THEN FirstRaised(stripped)
    ELSE ListVal(SelectSeq(stripped, LAMBDA item : Truthy(item)))

ItemsOf(value) ==
    IF value.kind = "str"
    THEN [i \in DOMAIN value.s |-> StrVal(<<value.s[i]>>)]
    ELSE value.items

StrippedEach(items) == [i \in DOMAIN items |-> StrippedItem(items[i])]

StrippedItems(value) ==
    IF value.kind \in {"none", "int"} THEN Raised("TypeError")
    ELSE KeptItems(StrippedEach(ItemsOf(value)))

\* the field that __post_init__ strips item by item: description of a
\* WorkExperience, technologies of a Project
ListField(cls) == IF cls = "WorkExperience" THEN "description" ELSE "technologies"

\* the last statement of __post_init__ of WorkExperience and Project
WithItems(f, key, items) ==
    IF items.kind = "raise" THEN items ELSE [f EXCEPT ![key] = items]

\* __post_init__ of Education, WorkExperience and Project once both dates are
\* validated: an exception of either leaves it
WithDates(cls, f, start, end) ==
    IF start.kind = "raise" THEN start
    ELSE IF end.kind = "raise" THEN end
    ELSE IF cls = "Education"
    THEN [f EXCEPT !.start_date = start, !.end_date = end]
    ELSE WithItems([f EXCEPT !.start_date = start, !.end_date = end],
                   ListField(cls), StrippedItems(f[ListField(cls)]))

\* __post_init__ of Certification and Publication
WithDate(f, date) ==
    IF date.kind = "raise" THEN date ELSE [f EXCEPT !.date = date]

\* __post_init__ of each dataclass, on its fields: the fields as stored, or
\* the exception that leaves it
PostInit(cls, f) ==
    CASE cls \in {"Education", "WorkExperience", "Project"} ->
            WithDates(cls, f, CheckedStartDate(f), CheckedEndDate(f))
      [] cls \in {"Certification", "Publication"} -> WithDate(f, CheckedDate(f))
      [] OTHER -> f

\* cls(**kwargs): an unexpected keyword is a TypeError, a missing one takes
\* the default of the field
InstanceUnlessRaised(cls, stored) ==
    IF "kind" \in DOMAIN stored /\ stored.kind = "raise"
    THEN stored
    ELSE Instance(cls, stored)

FieldsGiven(cls, kwargs) ==
    [key \in EntityFields[cls] |->
        IF key \in DOMAIN kwargs THEN kwargs[key] ELSE FieldDefault(cls, key)]

Construct(cls, kwargs) ==
    IF ~(DOMAIN kwargs \subseteq EntityFields[cls]) THEN Raised("TypeError")
    ELSE InstanceUnlessRaised(cls, PostInit(cls, FieldsGiven(cls, kwargs)))

\* cls(**value): a value that is not a mapping is a TypeError
ConstructFrom(cls, value) ==
    IF value.kind = "dict" THEN Construct(cls, value.d) ELSE Raised("TypeError")

\* the sections of a ResumeOutput, in the order of the fields, with the class
\* of the entries of each
ResumeSections ==
    << [key |-> "education", cls |-> "Education"],
       [key |-> "work_experience", cls |-> "WorkExperience"],
       [key |-> "skills", cls |-> "Skill"],
       [key |-> "certifications", cls |-> "Certification"],
       [key |-> "projects", cls |-> "Project"],
       [key |-> "publications", cls |-> "Publication"],
       [key |-> "languages", cls |-> "Language"],
       [key |-> "other_sections", cls |-> "OtherSection"] >>

\* [item if isinstance(item, cls) else cls(**item) for item in value]
\* a list of entries, or the first exception that building one of them raised
ListOrRaise(entries) ==
    IF AnyRaised(entries) THEN FirstRaised(entries) ELSE ListVal(entries)

EntriesOf(cls, value) ==
    CASE value.kind \in {"none", "int"} -> Raised("TypeError")
      [] value.kind \in {"str", "dict"} ->
            IF Truthy(value) THEN Raised("TypeError") ELSE ListVal(<<>>)
      [] value.kind = "list" ->
            ListOrRaise([i \in DOMAIN value.items |->
                            IF value.items[i].kind = "object"
                               /\ value.items[i].cls = cls
                            THEN value.items[i]
                            ELSE ConstructFrom(cls, value.items[i])])
      [] OTHER -> Raised("TypeError")

\* if not isinstance(self.meta, Meta): self.meta = Meta(**(self.meta or {}))
MetaOf(value) ==
    IF value.kind = "object" /\ value.cls = "Meta" THEN value
    ELSE ConstructFrom("Meta", IF Truthy(value) THEN value ELSE EmptyDict)

\* ResumeOutput(**kwargs) with every field given: ResumeOutput.__post_init__
PostInitResume(kwargs, lists, meta) ==
    IF AnyRaised(lists) THEN FirstRaised(lists)
    ELSE IF meta.kind = "raise" THEN meta
    ELSE Instance("ResumeOutput",
             [key \in DOMAIN kwargs |->
                 IF key = "meta" THEN meta
                 ELSE IF key = "contact" THEN kwargs.contact
                 ELSE lists[CHOOSE n \in DOMAIN ResumeSections :
                                ResumeSections[n].key = key]])

ResumeOutput(kwargs) ==
    PostInitResume(kwargs,
                   [n \in DOMAIN ResumeSections |->
                       EntriesOf(ResumeSections[n].cls,
                                 kwargs[ResumeSections[n].key])],
                   MetaOf(kwargs.meta))

\* dataclasses.asdict of an entry: the mapping from its fields to their values
AsDict(instance) ==
    IF instance.kind = "object" THEN DictVal(instance.f) ELSE Raised("TypeError")

\* Meta.to_dict: the fields that are not None
MetaToDict_DropFalsy(meta) ==
    DictVal([key \in {k \in DOMAIN meta.f : Truthy(meta.f[k])} |-> meta.f[key]])

MetaToDict(meta) ==
    DictVal([key \in {k \in DOMAIN meta.f : meta.f[k] # None} |-> meta.f[key]])

\* ResumeOutput.to_dict
ToDict(self) ==
    LET contact == AsDict(self.f.contact)
    IN  IF contact.kind = "raise" THEN contact
        ELSE DictVal([key \in DOMAIN self.f |->
                 IF key = "contact" THEN contact
                 ELSE IF key = "meta" THEN MetaToDict(self.f.meta)
                 ELSE ListVal([i \in DOMAIN self.f[key].items |->
                                  AsDict(self.f[key].items[i])])])

ResumeKeys ==
    {"contact", "meta"} \cup {ResumeSections[n].key : n \in DOMAIN ResumeSections}

\* ResumeOutput.validate
Validate(self) ==
    IF self.f.skills.kind # "list" THEN Raised("TypeError") ELSE None

\* ResumeOutput.from_dict
FromDictWith(mapping, contact) ==
    IF contact.kind = "raise" THEN contact
    ELSE ResumeOutput(
             [key \in ResumeKeys |->
                 IF key = "contact" THEN contact
                 ELSE IF key = "meta" THEN Get(mapping, "meta", EmptyDict)
                 ELSE Get(mapping, key, ListVal(<<>>))])

FromDict(mapping) ==
    FromDictWith(mapping,
                 ConstructFrom("Contact", Get(mapping, "contact", EmptyDict)))

\* ResumeOutput.from_dict(payload)
FromDictCall ==
    /\ pc = "from_dict"
    /\ resume' = FromDict(payload)
    /\ pc' = "constructed"
    /\ UNCHANGED <<payload, dumped, reloaded, sectionVars, lineVars, dateVars,
                   linkVars>>

\* resume.to_dict()
ToDictCall ==
    /\ pc = "constructed"
    /\ resume.kind = "object"
    /\ dumped' = ToDict(resume)
    /\ pc' = "dumped"
    /\ UNCHANGED <<payload, resume, reloaded, sectionVars, lineVars, dateVars,
                   linkVars>>

\* ResumeOutput.from_dict(resume.to_dict())
FromDictOfDumpedCall ==
    /\ pc = "dumped"
    /\ dumped.kind = "dict"
    /\ reloaded' = FromDict(dumped)
    /\ pc' = "reloaded"
    /\ UNCHANGED <<payload, resume, dumped, sectionVars, lineVars, dateVars,
                   linkVars>>

(***************************************************************************)
(* Payloads given to ResumeOutput.from_dict.                               *)
(***************************************************************************)
MaxEntries == 1      \* entries of a section of a payload

TxtJane == <<"J", "a", "n", "e">>
TxtSoon == <<"s", "o", "o", "n">>

\* values of a date field: absent, empty, years, months in and out of range,
\* the sentinel, text that is no date, and an integer
SchemaDates ==
    {None, StrVal(<<>>), StrVal(<<"2","0","1","9">>),
     StrVal(<<" ","2","0","1","9"," ">>),
     StrVal(<<"2","0","1","9","-","0","5">>),
     StrVal(<<"2","0","1","9","-","5">>),
     StrVal(<<"2","0","1","9","-","1","3">>),
     StrVal(<<"0","0","0","0">>),
     StrVal(<<"P","R","E","S","E","N","T">>),
     StrVal(TxtSoon), IntVal(2018)}

\* values of a list-of-strings field
SchemaLists ==
    {ListVal(<<>>), ListVal(<<StrVal(<<" ", "x", " ">>), StrVal(<<" ">>), None>>),
     StrVal(<<"x", " ">>), ListVal(<<IntVal(5)>>), None}

\* mappings given for one entry of a section
EntryValues(cls) ==
    CASE cls \in {"Education"} ->
            {DictVal([start_date |-> a, end_date |-> b]) :
                 a \in SchemaDates, b \in SchemaDates}
      [] cls = "WorkExperience" ->
            {DictVal([start_date |-> a, end_date |-> b, duration_months |-> IntVal(5)]) :
                 a \in SchemaDates, b \in SchemaDates}
            \cup {DictVal([company |-> StrVal(TxtX), description |-> d]) :
                      d \in SchemaLists}
      [] cls = "Project" ->
            {DictVal([start_date |-> a, end_date |-> b]) :
                 a \in SchemaDates, b \in SchemaDates}
            \cup {DictVal([name |-> StrVal(TxtX), technologies |-> d]) :
                      d \in SchemaLists}
      [] cls \in {"Certification", "Publication"} ->
            {DictVal([date |-> a]) : a \in SchemaDates}
      [] cls = "Skill" ->
            {DictVal([name |-> StrVal(TxtX)]), DictVal([skill |-> StrVal(TxtX)]),
             StrVal(TxtX)}
      [] cls = "Language" ->
            {DictVal([name |-> StrVal(TxtX), proficiency |-> None])}
      [] cls = "OtherSection" ->
            {DictVal([label |-> StrVal(TxtX), content |-> StrVal(TxtX)])}

ContactValues ==
    {EmptyDict, DictVal([name |-> StrVal(TxtJane)]),
     DictVal([nickname |-> StrVal(TxtJane)]), None}

MetaValues ==
    {EmptyDict, None, DictVal([source |-> StrVal(TxtX)]),
     DictVal([notes |-> StrVal(<<>>)]),
     DictVal([source |-> StrVal(TxtX), notes |-> StrVal(TxtJane)])}

\* a payload: one section with its entries, or a contact and a meta
IsModelPayload(p) ==
    \/ \E n \in DOMAIN ResumeSections :
       \E k \in 0..MaxEntries :
       \E entries \in [1..k -> EntryValues(ResumeSections[n].cls)] :
           p = DictVal([key \in {ResumeSections[n].key} |-> ListVal(entries)])
    \/ \E keys \in SUBSET {"contact", "meta"} :
       \E contact \in ContactValues :
       \E meta \in MetaValues :
           /\ "contact" \notin keys => contact = EmptyDict
           /\ "meta" \notin keys => meta = EmptyDict
           /\ p = DictVal([key \in keys |->
                              IF key = "contact" THEN contact ELSE meta])

InitSchema ==
    /\ pc = "from_dict"
    /\ IsModelPayload(payload)
    /\ resume = None
    /\ dumped = None
    /\ reloaded = None
    /\ IdleSections
    /\ IdleLines
    /\ IdleDates
    /\ IdleLink

NextSchema == FromDictCall \/ ToDictCall \/ FromDictOfDumpedCall

SpecSchema == InitSchema /\ [][NextSchema]_vars

(***************************************************************************)
(* Claims about the output schema.                                         *)
(***************************************************************************)
\* the date fields of the entries of each section
DateFields(cls) ==
    CASE cls \in {"Education", "WorkExperience", "Project"} ->
            {"start_date", "end_date"}
      [] cls \in {"Certification", "Publication"} -> {"date"}
      [] OTHER -> {}

\* the date-format invariant: an absent value, YYYY, YYYY-MM (or YYYY-M) with
\* a month of 1..12, or the literal present / Present
IsDateOfSchema(value) ==
    \/ ~Truthy(value)
    \/ /\ value.kind = "str"
       /\ \/ IsCanonicalDate(value.s)
          \/ /\ Len(value.s) = 6
             /\ IsCanonicalDate(SubSeq(value.s, 1, 5) \o <<"0", value.s[6]>>)
          \/ value.s \in {StrPresent, StrCapitalPresent}

\* every date field of every entry of a constructed ResumeOutput
StoredDates(r) ==
    UNION {UNION {{r.f[ResumeSections[n].key].items[i].f[key] :
                      key \in DateFields(ResumeSections[n].cls)} :
                  i \in DOMAIN r.f[ResumeSections[n].key].items} :
           n \in DOMAIN ResumeSections}

\* every date given in the payload, for the sections given as lists of mappings
GivenDates(p) ==
    UNION {UNION {{p.d[ResumeSections[n].key].items[i].d[key] :
                      key \in DateFields(ResumeSections[n].cls)
                              \cap DOMAIN p.d[ResumeSections[n].key].items[i].d} :
                  i \in {j \in DOMAIN p.d[ResumeSections[n].key].items :
                             p.d[ResumeSections[n].key].items[j].kind = "dict"}} :
           n \in {m \in DOMAIN ResumeSections :
                      ResumeSections[m].key \in DOMAIN p.d}}

\* C11: every date field of a constructed ResumeOutput is absent, a valid YYYY
\* or YYYY-MM, or present/Present; a given date (text) that is none of these
\* makes the construction fail with ValueError instead of being stored.
C11_StoredDatesAreValid ==
    pc # "from_dict" =>
        /\ resume.kind = "object" =>
              \A value \in StoredDates(resume) : IsDateOfSchema(value)
        /\ (/\ \E value \in GivenDates(payload) :
                   /\ value.kind = "str"
                   /\ ~IsDateOfSchema(StrVal(Strip(LowerStr(value.s), Whitespace)))
            /\ \A value \in GivenDates(payload) : value.kind \in {"none", "str"})
           => resume = Raised("ValueError")

\* C15: from_dict(r.to_dict()) is equal to r, and its to_dict is r.to_dict().
C15_RoundTripIsIdentity ==
    pc = "reloaded" =>
        /\ reloaded = resume
        /\ ToDict(reloaded) = dumped

\* a round trip of a Meta whose source is None and whose notes are empty text:
\* to_dict leaves the source out and keeps the notes
C15_Witness ==
    /\ pc = "reloaded"
    /\ resume.f.meta.f.source = None
    /\ resume.f.meta.f.notes = StrVal(<<>>)
    /\ DOMAIN dumped.d.meta.d = {"notes"}

(***************************************************************************)
(* Skills extractor (extract_skills of postprocessing.py).                 *)
(*                                                                         *)
(* The bullets U+2022, U+2023 and U+25E6 are the characters written        *)
(* "BULLET", "TRI_BULLET" and "WHITE_BULLET".                              *)
(***************************************************************************)
\* the characters of the class of BULLET_PATTERN
BulletChars == {"BULLET", "-", "TRI_BULLET", "WHITE_BULLET", "*"}

\* re.split on a pattern that matches one character of seps: the pieces
\* between the separators, the empty ones included
RECURSIVE SplitOn(_, _)
SplitOn(text, seps) ==
    LET j == RunEndNot(text, 1, seps)
    IN  IF j > Len(text) THEN <<text>>
        ELSE <<SubSeq(text, 1, j - 1)>> \o SplitOn(SubSeq(text, j + 1, Len(text)), seps)

\* _clean_bullet: BULLET_PATTERN.sub("", text).strip(); the pattern matches a
\* run of bullets at the very start of the text and the whitespace after it
CleanBullet(text) ==
    LET b == RunEnd(text, 1, BulletChars)
        w == RunEnd(text, b, Whitespace)
    IN  IF b > 1
        THEN Strip(SubSeq(text, w, Len(text)), Whitespace)
        ELSE Strip(text, Whitespace)

\* the separators of re.split(r"[,;/\n]|•", text)
SkillSeparators == {",", ";", "/", "\n", "BULLET"}

MaxSkillLength == 60

\* the loop of extract_skills over the candidates from the n-th on; skills
\* are the names kept so far and seen their lower-cased keys
RECURSIVE SkillLoop(_, _, _, _)
SkillLoop(candidates, n, skills, seen) ==
    IF n > Len(candidates) THEN skills
    ELSE LET skill == Strip(CleanBullet(candidates[n]), Whitespace)
             key == LowerStr(skill)
         IN  IF skill = <<>> \/ Len(skill) > MaxSkillLength
             THEN SkillLoop(candidates, n + 1, skills, seen)
             ELSE IF key \in seen
             THEN SkillLoop(candidates, n + 1, skills, seen)
             ELSE SkillLoop(candidates, n + 1, Append(skills, skill),
                            seen \cup {key})

\* extract_skills
ExtractSkills(tokens) ==
    LET text == JoinTokens(tokens)
    IN  IF text = <<>> THEN ListVal(<<>>)
        ELSE LET names == SkillLoop(SplitOn(text, SkillSeparators), 1, <<>>, {})
             IN  ListVal([i \in DOMAIN names |->
                             Construct("Skill", [name |-> StrVal(names[i])])])

ExtractSkillsCall ==
    /\ pc = "extract_skills"
    /\ call.op = "extract_skills"
    /\ ret' = ExtractSkills(call.tokens)
    /\ pc' = "skills_done"
    /\ UNCHANGED <<call, sectionVars, lineVars, schemaVars, linkVars>>

(***************************************************************************)
(* Tokens of a skills section.                                             *)
(***************************************************************************)
MaxSkillTokens == 3   \* tokens of a skills section

Repeated(c, n) == [i \in 1..n |-> c]

\* token texts: names in several casings with the separators attached, bare
\* bullets and separators, and names of the longest kept and the shortest
\* dropped length
SkillTexts ==
    {<<"P", "y", ",">>, <<"p", "y">>, <<"P", "Y", ";">>, <<"*">>,
     <<"-", "G", "o", "/">>, <<"BULLET">>, <<",">>, <<"S", "Q", "L">>,
     <<"a", "\n", "p", "Y">>, <<>>,
     Repeated("x", MaxSkillLength), Repeated("x", MaxSkillLength + 1)}

InitSkills ==
    /\ pc = "extract_skills"
    /\ \E n \in 0..MaxSkillTokens :
          \E texts \in [1..n -> SkillTexts] :
              call = [op |-> "extract_skills",
                      tokens |-> [i \in 1..n |-> [id |-> i, text |-> texts[i]]]]
    /\ ret = None
    /\ IdleSections
    /\ IdleLines
    /\ IdleSchema
    /\ IdleLink

NextSkills == ExtractSkillsCall

SpecSkills == InitSkills /\ [][NextSkills]_vars

(***************************************************************************)
(* Claims about the skills extractor.                                      *)
(***************************************************************************)
\* the candidates of the joined text of the section, none for an empty text
SkillCandidates(tokens) ==
    IF JoinTokens(tokens) = <<>> THEN <<>>
    ELSE SplitOn(JoinTokens(tokens), SkillSeparators)

\* a candidate with the whitespace around it and its leading bullets stripped
StrippedCandidate(candidate) == CleanBullet(Strip(candidate, Whitespace))

\* C13: extract_skills returns the candidates of the split on comma,
\* semicolon, slash, newline and bullet, with leading bullets stripped, without
\* the empty ones and those longer than 60 characters, in first-seen order,
\* no two equal ignoring case, the first of several casings being kept.
C13_SkillsAreStrippedCandidates ==
    pc = "skills_done" =>
        LET candidates == SkillCandidates(call.tokens)
            stripped == [k \in DOMAIN candidates |-> StrippedCandidate(candidates[k])]
            kept == {k \in DOMAIN stripped :
                        stripped[k] # <<>> /\ Len(stripped[k]) <= MaxSkillLength}
            first == {k \in kept : \A j \in kept :
                        j < k => LowerStr(stripped[j]) # LowerStr(stripped[k])}
            names == [i \in DOMAIN ret.items |-> ret.items[i].f.name.s]
        IN  /\ Len(names) = Cardinality(first)
            /\ \A i \in DOMAIN names :
                  \E k \in first :
                      /\ names[i] = stripped[k]
                      /\ Cardinality({j \in first : j < k}) = i - 1

(***************************************************************************)
(* Contact extractor (extract_contact of postprocessing.py).               *)
(***************************************************************************)

\* the text a match spans: the characters from start up to end, end excluded
Span(t, match) == SubSeq(t, match.start, match.end - 1)

\* pattern.search(t) for a pattern whose match at a position is At(t, i): the
\* match at the leftmost position that has one
SearchFrom(t, from, At(_, _)) ==
    LET hits == {i \in from..Len(t) : At(t, i).matched}
    IN  IF hits = {} THEN NoMatch ELSE At(t, Leftmost(hits))

\* sep.join(parts)
RECURSIVE JoinWith(_, _)
JoinWith(parts, sep) ==
    IF parts = <<>> THEN <<>>
    ELSE IF Len(parts) = 1 THEN parts[1]
    ELSE parts[1] \o sep \o JoinWith(Tail(parts), sep)

\* [A-Za-z0-9._%+-]+@[A-Za-z0-9.-]+\.[A-Za-z]{2,} at position i: the run of
\* local characters up to the @, the longest domain that leaves a dot and at
\* least two letters, and the run of letters after that dot
EmailLocalChars == Letters \cup Range(DigitChars) \cup {".", "_", "%", "+", "-"}
EmailDomainChars == Letters \cup Range(DigitChars) \cup {".", "-"}

EmailAt(t, i) ==
    LET a == RunEnd(t, i, EmailLocalChars)
        d == RunEnd(t, a + 1, EmailDomainChars)
        dots == {k \in (a + 2)..(d - 3) :
                    t[k] = "." /\ t[k + 1] \in Letters /\ t[k + 2] \in Letters}
    IN  IF a > i /\ a <= Len(t) /\ t[a] = "@" /\ dots # {}
        THEN [matched |-> TRUE, start |-> i,
              end |-> RunEnd(t, Rightmost(dots) + 1, Letters)]
        ELSE NoMatch

\* (\+?\d[\d\s().-]{7,}\d) at position i: an optional +, a digit, the longest
\* run of at least 7 digits, spaces and ( ) . - that a digit follows
PhoneChars == Range(DigitChars) \cup Whitespace \cup {"(", ")", ".", "-"}

PhoneAt(t, i) ==
    LET s == IF t[i] = "+" THEN i + 1 ELSE i
        e == RunEnd(t, s + 1, PhoneChars)
        last == {q \in (s + 8)..(e - 1) : IsDigit(t[q])}
    IN  IF s <= Len(t) /\ IsDigit(t[s]) /\ last # {}
        THEN [matched |-> TRUE, start |-> i, end |-> Rightmost(last) + 1]
        ELSE NoMatch

\* https?://\S+ at position i
UrlAt(t, i) ==
    LET http == <<"h", "t", "t", "p">>
        s == IF i + 4 <= Len(t) /\ t[i + 4] = "s" THEN i + 5 ELSE i + 4
        e == RunEndNot(t, s + 3, Whitespace)
    IN  IF /\ s + 3 <= Len(t)
           /\ SubSeq(t, i, i + 3) = http
           /\ SubSeq(t, s, s + 2) = <<":", "/", "/">>
           /\ e > s + 3
        THEN [matched |-> TRUE, start |-> i, end |-> e]
        ELSE NoMatch

\* re.search(r"\d+\s+[A-Za-z]", line): a digit, whitespace, then a letter
HasStreetNumber(line) ==
    \E i \in DOMAIN line :
        /\ IsDigit(line[i])
        /\ RunEnd(line, i + 1, Whitespace) > i + 1
        /\ RunEnd(line, i + 1, Whitespace) <= Len(line)
        /\ line[RunEnd(line, i + 1, Whitespace)] \in Letters

\* the text of a match, or None
GroupOrNone(t, match) == IF match.matched THEN StrVal(Span(t, match)) ELSE None

\* len(text.split()): the runs of characters that are not whitespace
WordCount(text) ==
    Cardinality({i \in DOMAIN text :
                    /\ text[i] \notin Whitespace
                    /\ (i = 1 \/ text[i - 1] \in Whitespace)})

\* _extract_name: the first of the first three lines without @, + or http
\* that has two to five words
IsNameLine(line) ==
    LET candidate == Strip(line, Whitespace)
    IN  /\ line # <<>>
        /\ ~Contains(candidate, <<"@">>)
        /\ ~Contains(candidate, <<"+">>)
        /\ ~Contains(candidate, <<"h", "t", "t", "p">>)
        /\ WordCount(candidate) > 1
        /\ WordCount(candidate) <= 5

ExtractName(lines) ==
    LET named == {n \in DOMAIN lines : n <= 3 /\ IsNameLine(lines[n])}
    IN  IF named = {} THEN None
        ELSE StrVal(Strip(lines[Leftmost(named)], Whitespace))

\* the Contact of extract_contact, lines being its lines and combined_text
\* the text it searches; re.search on a raw_text of None is a TypeError
ContactOf(lines, combined_text, located) ==
    IF combined_text.kind # "str" THEN Raised("TypeError")
    ELSE Construct("Contact",
             [name |-> ExtractName(lines),
              email |-> GroupOrNone(combined_text.s,
                            SearchFrom(combined_text.s, 1, EmailAt)),
              phone |-> GroupOrNone(combined_text.s,
                            SearchFrom(combined_text.s, 1, PhoneAt)),
              website |-> GroupOrNone(combined_text.s,
                              SearchFrom(combined_text.s, 1, UrlAt)),
              location |-> IF located = {} THEN None
                           ELSE StrVal(Strip(lines[Rightmost(located)],
                                             Whitespace)),
              raw |-> IF lines # <<>> THEN StrVal(JoinWith(lines, <<"\n">>))
                      ELSE None])

\* combined_text = " ".join(lines) if lines else document.raw_text
ContactOfLines(doc, lines) ==
    ContactOf(lines,
              IF lines # <<>> THEN StrVal(JoinWith(lines, <<" ">>))
              ELSE doc.raw_text,
              {n \in DOMAIN lines : HasStreetNumber(lines[n])})

\* if not lines and document.pages: the lines of the first page's first tokens
ContactLines(doc, own) ==
    IF own = <<>> /\ doc.pages # <<>>
    THEN TokensToLines(FirstPageTokens(doc))
    ELSE own

\* extract_contact
ExtractContact(doc, tokens) ==
    ContactOfLines(doc, ContactLines(doc, TokensToLines(tokens)))

(***************************************************************************)
(* Education extractor (build_education_entries of postprocessing.py).     *)
(***************************************************************************)
\* the span of DATE_RANGE_PATTERN.search(t) from a position on: the positions
\* of its first character and of the character after its last
DateRangeSpanAt(t, i) ==
    LET j == RunEndNot(t, i, Dashes)
        e == RunEndNot(t, j + 1, {"\n"})
    IN  IF j > i /\ j <= Len(t) /\ e > j + 1
        THEN [matched |-> TRUE, start |-> i, end |-> e]
        ELSE NoMatch

\* re.split(r"\n{2,}|•", text): the pieces between the separators, a
\* separator being a bullet or a whole run of two or more newlines
RECURSIVE SplitChunks(_)
SplitChunks(text) ==
    LET seps == {i \in DOMAIN text :
                    \/ text[i] = "BULLET"
                    \/ text[i] = "\n" /\ i < Len(text) /\ text[i + 1] = "\n"}
    IN  IF seps = {} THEN <<text>>
        ELSE LET i == Leftmost(seps)
                 e == IF text[i] = "BULLET" THEN i + 1
                      ELSE RunEnd(text, i, {"\n"})
             IN  <<SubSeq(text, 1, i - 1)>>
                 \o SplitChunks(SubSeq(text, e, Len(text)))

\* [piece.strip() for piece in pieces if piece.strip()]
StrippedPieces(pieces) ==
    SelectSeq([n \in DOMAIN pieces |-> Strip(pieces[n], Whitespace)],
              LAMBDA piece : piece # <<>>)

\* a literal of a case-insensitive pattern at position i; "WS" in the literal
\* stands for one whitespace character
LiteralAt(t, i, literal) ==
    /\ i + Len(literal) - 1 <= Len(t)
    /\ \A k \in DOMAIN literal :
          IF literal[k] = "WS" THEN t[i + k - 1] \in Whitespace
          ELSE LowerChar(t[i + k - 1]) = literal[k]

\* the texts DEGREE_PATTERN matches, in the order the pattern tries them: each
\* alternative with its optional part before the alternative without it
DEGREE_ALTERNATIVES == <<
    <<"b","a","c","h","e","l","o","r","'","s">>, <<"b","a","c","h","e","l","o","r">>,
    <<"m","a","s","t","e","r","'","s">>, <<"m","a","s","t","e","r">>,
    <<"b",".","WS","s","c">>, <<"b",".","s","c">>,
    <<"m",".","WS","s","c">>, <<"m",".","s","c">>,
    <<"b",".","WS","e","n","g">>, <<"b",".","e","n","g">>,
    <<"m",".","WS","e","n","g">>, <<"m",".","e","n","g">>,
    <<"m","b","a">>,
    <<"p","h",".","d">>, <<"p","h","d">> >>

DegreeAt(t, i) ==
    LET fits == {n \in DOMAIN DEGREE_ALTERNATIVES :
                    LiteralAt(t, i, DEGREE_ALTERNATIVES[n])}
    IN  IF fits = {} THEN NoMatch
        ELSE [matched |-> TRUE, start |-> i,
              end |-> i + Len(DEGREE_ALTERNATIVES[Leftmost(fits)])]

\* FIELD_MARKER_PATTERN at position i: in or of, whitespace, and the run of
\* letters, & and whitespace after it; the group is what the run holds
FieldChars == Letters \cup {"&"} \cup Whitespace

FieldMarkerAt(t, i) ==
    LET w == RunEnd(t, i + 2, Whitespace)
    IN  IF /\ \/ LiteralAt(t, i, <<"i", "n">>)
              \/ LiteralAt(t, i, <<"o", "f">>)
           /\ w > i + 2
        THEN IF w <= Len(t) /\ t[w] \in FieldChars
             THEN [matched |-> TRUE, start |-> i, end |-> RunEnd(t, w, FieldChars),
                   group |-> SubSeq(t, w, RunEnd(t, w, FieldChars) - 1)]
             ELSE IF w > i + 3
             THEN [matched |-> TRUE, start |-> i, end |-> w,
                   group |-> <<t[w - 1]>>]
             ELSE NoMatch
        ELSE NoMatch

\* (GPA|Grade)[:\s]+([0-9.]+) at position i, case-insensitive
GradeAt(t, i) ==
    LET k == IF LiteralAt(t, i, <<"g", "p", "a">>) THEN i + 3
             ELSE IF LiteralAt(t, i, <<"g", "r", "a", "d", "e">>) THEN i + 5
             ELSE 0
        s == RunEnd(t, k, Whitespace \cup {":"})
        e == RunEnd(t, s, Range(DigitChars) \cup {"."})
    IN  IF k > 0 /\ s > k /\ e > s
        THEN [matched |-> TRUE, start |-> i, end |-> e,
              group |-> SubSeq(t, s, e - 1)]
        ELSE NoMatch

\* the characters of strip(" ,-•") and of strip(" ,-|•")
HeadingStrip == {" ", ",", "-", "BULLET"}
RoleStrip == {" ", ",", "-", "|", "BULLET"}

\* value or None
OrNone(text) == IF text = <<>> THEN None ELSE StrVal(text)

\* the text without the date range DATE_RANGE_PATTERN.search found in it
WithoutRange(chunk, range) ==
    IF range.matched
    THEN Strip(SubSeq(chunk, 1, range.start - 1)
               \o SubSeq(chunk, range.end, Len(chunk)), HeadingStrip)
    ELSE chunk

\* parts[0] if parts else whole
FirstPartOr(whole, parts) == IF parts # <<>> THEN parts[1] ELSE whole

\* the institution of a text that is before the degree, or the whole text
FirstPartOf(whole) ==
    FirstPartOr(whole, StrippedPieces(SplitOn(whole, {",", "|"})))

\* the text before the degree, or the whole text when that is empty
BeforeOr(text, before) == IF before # <<>> THEN before ELSE text

InstitutionOf(text, degree_match) ==
    FirstPartOf(BeforeOr(text,
                    IF degree_match.matched
                    THEN Strip(SubSeq(text, 1, degree_match.start - 1),
                               HeadingStrip)
                    ELSE <<>>))

\* the Education of _parse_education_chunk from what its searches found
EducationOf(dates, text, degree_match, field_match, grade_match) ==
    Construct("Education",
        [institution |-> OrNone(InstitutionOf(text, degree_match)),
         degree |-> IF degree_match.matched
                    THEN StrVal(Strip(Span(text, degree_match), Whitespace))
                    ELSE None,
         field_of_study |-> IF field_match.matched
                            THEN StrVal(Strip(field_match.group, Whitespace))
                            ELSE None,
         start_date |-> dates.items[1],
         end_date |-> dates.items[2],
         grade |-> IF grade_match.matched THEN StrVal(grade_match.group)
                   ELSE None])

\* _parse_education_chunk once the date range is removed from the text
ParseWithoutRange(chunk, text) ==
    EducationOf(NormalizeDateRange(chunk), text,
                SearchFrom(text, 1, DegreeAt),
                SearchFrom(text, 1, FieldMarkerAt),
                SearchFrom(chunk, 1, GradeAt))

\* _parse_education_chunk
ParseEducationChunk(chunk) ==
    ParseWithoutRange(chunk,
        WithoutRange(chunk, SearchFrom(chunk, 1, DateRangeSpanAt)))

\* build_education_entries
SegmentsOr(text, split) == IF split = <<>> THEN <<text>> ELSE split

EducationOfSegments(segments) ==
    ListOrRaise([n \in DOMAIN segments |-> ParseEducationChunk(segments[n])])

BuildEducationEntries(tokens) ==
    IF JoinTokens(tokens) = <<>> THEN ListVal(<<>>)
    ELSE EducationOfSegments(
             SegmentsOr(JoinTokens(tokens),
                        StrippedPieces(SplitChunks(JoinTokens(tokens)))))

(***************************************************************************)
(* Work experience extractor (build_work_entries of postprocessing.py).    *)
(***************************************************************************)
\* the positions at which needle occurs in hay
Occurrences(hay, needle) ==
    {i \in 1..(Len(hay) - Len(needle) + 1) :
        SubSeq(hay, i, i + Len(needle) - 1) = needle}

\* [part.strip(" ,-|•") for part in re.split(r"[,|]", text) if part.strip()]
RoleParts(text) ==
    LET pieces == SelectSeq(SplitOn(text, {",", "|"}),
                            LAMBDA piece : Strip(piece, Whitespace) # <<>>)
    IN  [n \in DOMAIN pieces |-> Strip(pieces[n], RoleStrip)]

\* _split_role_company: the pair (company, position)
SplitRoleCompany(text) ==
    LET at == Occurrences(LowerStr(text), <<" ", "a", "t", " ">>)
        parts == RoleParts(text)
    IN  IF at # {}
        THEN [company |-> OrNone(Strip(SubSeq(text, Leftmost(at) + 4, Len(text)),
                                       RoleStrip)),
              position |-> OrNone(Strip(SubSeq(text, 1, Leftmost(at) - 1),
                                        RoleStrip))]
        ELSE IF Len(parts) >= 2
        THEN [company |-> StrVal(parts[2]), position |-> StrVal(parts[1])]
        ELSE [company |-> OrNone(Strip(text, RoleStrip)), position |-> None]

\* the heading of a dated line: the text before the date range or, when the
\* range pattern does not match, before the last occurrence of the first month
\* name of MONTH_NAMES that the line holds
DatedHeading(line) ==
    LET date_match == SearchFrom(line, 1, DateRangeSpanAt)
        months == {n \in DOMAIN MONTH_ALTERNATIVES :
                      Occurrences(LowerStr(line), MONTH_ALTERNATIVES[n]) # {}}
    IN  IF date_match.matched
        THEN Strip(SubSeq(line, 1, date_match.start - 1), HeadingStrip)
        ELSE IF months # {}
        THEN Strip(SubSeq(line, 1,
                       Rightmost(Occurrences(LowerStr(line),
                           MONTH_ALTERNATIVES[Leftmost(months)])) - 1),
                   HeadingStrip)
        ELSE line

\* WorkExperience(...) of a dated line; the exception of compute_duration
\* leaves build_work_entries
WorkExperienceOf(heading, start, end, duration) ==
    IF duration.kind = "raise" THEN duration
    ELSE Construct("WorkExperience",
             [company |-> heading.company, position |-> heading.position,
              start_date |-> start, end_date |-> end,
              duration_months |-> duration, description |-> ListVal(<<>>)])

\* the entry a dated line opens, start and end being the dates of the line;
\* compute_duration reads the clock
DatedEntry(line, start, end, now) ==
    WorkExperienceOf(SplitRoleCompany(DatedHeading(line)), start, end,
                     ComputeDuration(start, end, now))

UndatedOf(heading) ==
    Construct("WorkExperience",
        [company |-> heading.company,
         position |-> heading.position,
         description |-> ListVal(<<>>)])

\* the entry a first line without dates opens
UndatedEntry(line) == UndatedOf(SplitRoleCompany(line))

\* current.description.append(cleaned) for every bullet of the line
WithBullets(current, line) ==
    LET bullets == SplitOn(line, {"\n"})
        cleaned == SelectSeq([n \in DOMAIN bullets |-> CleanBullet(bullets[n])],
                             LAMBDA bullet : bullet # <<>>)
    IN  [current EXCEPT !.f.description =
            ListVal(@.items \o [n \in DOMAIN cleaned |-> StrVal(cleaned[n])])]

\* if current: entries.append(current)
Closed(entries, current) ==
    IF current # None THEN Append(entries, current) ELSE entries

\* the loop of build_work_entries from the n-th line on, entries being the
\* closed entries and current the open one (None before the first)
RECURSIVE WorkLoop(_, _, _, _, _)

\* current = WorkExperience(...); continue
Opened(lines, n, entries, current, now, opened) ==
    IF opened.kind = "raise" THEN opened
    ELSE WorkLoop(lines, n + 1, Closed(entries, current), opened, now)

\* the body of the loop for the stripped line, dates being its date range
WorkLine(lines, n, entries, current, now, line, dates) ==
    IF line = <<>> THEN WorkLoop(lines, n + 1, entries, current, now)
    ELSE IF Truthy(dates.items[1]) \/ Truthy(dates.items[2])
    THEN Opened(lines, n, entries, current, now,
                DatedEntry(line, dates.items[1], dates.items[2], now))
    ELSE IF current = None
    THEN WorkLoop(lines, n + 1, entries, UndatedEntry(line), now)
    ELSE WorkLoop(lines, n + 1, entries, WithBullets(current, line), now)

WorkLoop(lines, n, entries, current, now) ==
    IF n > Len(lines) THEN ListVal(Closed(entries, current))
    ELSE WorkLine(lines, n, entries, current, now,
                  Strip(lines[n], Whitespace),
                  NormalizeDateRange(Strip(lines[n], Whitespace)))

\* build_work_entries
BuildWorkEntries(tokens, now) == WorkLoop(TokensToLines(tokens), 1, <<>>, None, now)

(***************************************************************************)
(* Certifications, publications, projects, languages and other sections.   *)
(***************************************************************************)
\* DATE_RANGE_PATTERN.sub("", text): the text without any match of the pattern
RECURSIVE RemoveDateRanges(_)
RemoveDateRanges(text) ==
    LET match == SearchFrom(text, 1, DateRangeSpanAt)
    IN  IF ~match.matched THEN text
        ELSE SubSeq(text, 1, match.start - 1)
             \o RemoveDateRanges(SubSeq(text, match.end, Len(text)))

\* date = end or start, for the pair normalize_date_range returns
EndOrStart(dates) ==
    IF Truthy(dates.items[2]) THEN dates.items[2] ELSE dates.items[1]

\* the name and the date of a bullet-stripped line: the date range is removed
\* from the name when a date was found
NameAndDate(cleaned, date) ==
    [name |-> IF Truthy(date)
              THEN Strip(RemoveDateRanges(cleaned), HeadingStrip)
              ELSE cleaned,
     date |-> date]

DatedName(cleaned) == NameAndDate(cleaned, EndOrStart(NormalizeDateRange(cleaned)))

CertificationOf(entry) ==
    Construct("Certification", [name |-> OrNone(entry.name), date |-> entry.date])

CertificationsOf(lines) ==
    ListOrRaise([n \in DOMAIN lines |->
                    CertificationOf(DatedName(CleanBullet(lines[n])))])

\* build_certifications
BuildCertifications(tokens) == CertificationsOf(TokensToLines(tokens))

PublicationOf(entry) ==
    Construct("Publication", [title |-> OrNone(entry.name), date |-> entry.date])

PublicationsOf(lines) ==
    ListOrRaise([n \in DOMAIN lines |->
                    PublicationOf(DatedName(CleanBullet(lines[n])))])

\* build_publications: a line that is empty once bullet-stripped is skipped
BuildPublications(tokens) ==
    PublicationsOf(SelectSeq(TokensToLines(tokens),
                             LAMBDA line : CleanBullet(line) # <<>>))

MaxTechnologyLength == 40

\* Project(...) of build_projects
ProjectWith(name, remainder, technologies) ==
    Construct("Project",
        [name |-> OrNone(name), role |-> None,
         description |-> OrNone(remainder),
         technologies |-> ListVal([n \in DOMAIN technologies |->
                                      StrVal(technologies[n])])])

ProjectOfRemainder(name, remainder) ==
    ProjectWith(name, remainder,
        SelectSeq(StrippedPieces(SplitOn(remainder, {",", "/", "|"})),
                  LAMBDA tech : Len(tech) <= MaxTechnologyLength))

ProjectNamed(segment, name) ==
    ProjectOfRemainder(name,
        IF Len(segment) > Len(name)
        THEN Strip(SubSeq(segment, Len(name) + 1, Len(segment)), {" ", "-"})
        ELSE <<>>)

NameBefore(segment, dash) ==
    Strip(IF dash = {} THEN segment
          ELSE SubSeq(segment, 1, Leftmost(dash) - 1), Whitespace)

\* the entry of one segment of build_projects: the name is the text before
\* the first " - ", the remainder the description and the technologies
ProjectOf(segment) ==
    ProjectNamed(segment, NameBefore(segment, Occurrences(segment, <<" ", "-", " ">>)))

\* build_projects
BuildProjects(tokens) ==
    LET segments == StrippedPieces(SplitChunks(JoinTokens(tokens)))
    IN  IF JoinTokens(tokens) = <<>> THEN ListVal(<<>>)
        ELSE ListOrRaise([n \in DOMAIN segments |-> ProjectOf(segments[n])])

\* the entry of build_languages: name and proficiency are the two sides of
\* the first "-" or, without one, of the first ":"
LanguageOf(entry) ==
    LET dash == Occurrences(entry, <<"-">>)
        colon == Occurrences(entry, <<":">>)
        cut == IF dash # {} THEN Leftmost(dash)
               ELSE IF colon # {} THEN Leftmost(colon)
               ELSE Len(entry) + 1
    IN  Construct("Language",
            [name |-> OrNone(Strip(SubSeq(entry, 1, cut - 1), Whitespace)),
             proficiency |-> OrNone(Strip(SubSeq(entry, cut + 1, Len(entry)),
                                          Whitespace))])

\* build_languages
BuildLanguages(tokens) ==
    LET entries == StrippedPieces(SplitOn(JoinTokens(tokens),
                                          {",", "/", "\n", "BULLET"}))
    IN  IF JoinTokens(tokens) = <<>> THEN ListVal(<<>>)
        ELSE ListOrRaise([n \in DOMAIN entries |-> LanguageOf(entries[n])])

StrOther == <<"o", "t", "h", "e", "r">>

\* build_other_sections
BuildOtherSections(tokens) ==
    IF JoinTokens(tokens) = <<>> THEN ListVal(<<>>)
    ELSE ListVal(<<Construct("OtherSection",
                       [label |-> StrVal(StrOther),
                        content |-> StrVal(JoinTokens(tokens))])>>)

(***************************************************************************)
(* link_entities of postprocessing.py.                                     *)
(***************************************************************************)
\* detect_sections run to completion over the tokens from the n-th on
RECURSIVE ScanAll(_, _, _, _)
ScanAll(tokens, n, label, buckets) ==
    IF n > Len(tokens) THEN buckets
    ELSE LET matched_section == MatchedSection(WordLower(tokens[n]))
         IN  IF matched_section # NoSection
             THEN ScanAll(tokens, n + 1, matched_section, buckets)
             ELSE ScanAll(tokens, n + 1, label,
                          [buckets EXCEPT ![label] = Append(@, tokens[n])])

DetectSections(doc) == ScanAll(DocTokens(doc), 1, "other_sections", EmptySections)

\* the sections link_entities hands to the extractors: those detected, the
\* contact section replaced by the first page's first tokens when it is empty
SectionsOf(doc) ==
    LET detected == DetectSections(doc)
    IN  IF detected["contact"] = <<>> /\ doc.pages # <<>>
        THEN [detected EXCEPT !["contact"] = FirstPageTokens(doc)]
        ELSE detected

StrTokenEmbeddings ==
    <<"t","o","k","e","n","_","e","m","b","e","d","d","i","n","g","s","=">>

\* notes = f"{existing_notes}; {note}" if existing_notes else note
NotesWith(existing_notes, note) ==
    IF Truthy(existing_notes)
    THEN existing_notes.s \o <<";", " ">> \o note
    ELSE note

\* result.meta = Meta(**meta_payload) with meta_payload["notes"] = notes
WithNotes(result, meta_payload, notes) ==
    Instance("ResumeOutput",
        [result.f EXCEPT !.meta =
            Construct("Meta", [key \in DOMAIN meta_payload.d \cup {"notes"} |->
                                  IF key = "notes" THEN StrVal(notes)
                                  ELSE meta_payload.d[key]])])

NotedIn(result, meta_payload, given) ==
    WithNotes(result, meta_payload,
              NotesWith(Get(meta_payload, "notes", None),
                        StrTokenEmbeddings \o DecimalDigits(Len(given.items))))

\* the note of link_entities: f"token_embeddings={len(embeddings)}", after
\* the notes the meta already has
WithEmbeddingsNote(result, given) ==
    IF ~Truthy(given) THEN result
    ELSE NotedIn(result, MetaToDict(result.f.meta), given)

\* the results of the extractors, in the order link_entities runs them
Extracted(doc, found, now) ==
    << ExtractContact(doc, found["contact"]),
       BuildEducationEntries(found["education"]),
       BuildWorkEntries(found["work_experience"], now),
       ExtractSkills(found["skills"]),
       BuildCertifications(found["certifications"]),
       BuildProjects(found["projects"]),
       BuildPublications(found["publications"]),
       BuildLanguages(found["languages"]),
       BuildOtherSections(found["other_sections"]) >>

\* resume.validate(), then if embeddings: ..., after resume = ResumeOutput(...)
NotedUnlessRaised(result, given) ==
    IF result.kind = "raise" THEN result
    ELSE IF Validate(result).kind = "raise" THEN Validate(result)
    ELSE WithEmbeddingsNote(result, given)

\* ResumeOutput(contact=..., ..., meta=Meta(source=document.file_path))
ResumeOf(doc, built, given) ==
    IF AnyRaised(built) THEN FirstRaised(built)
    ELSE NotedUnlessRaised(
             ResumeOutput(
                 [key \in ResumeKeys |->
                     IF key = "contact" THEN built[1]
                     ELSE IF key = "meta"
                     THEN Construct("Meta", [source |-> doc.file_path])
                     ELSE built[1 + CHOOSE n \in DOMAIN ResumeSections :
                                        ResumeSections[n].key = key]]),
             given)

\* link_entities(document, embeddings) invoked when the clock reads now: the
\* extractors run in the order of the code, and the first exception of one
\* of them, or of the construction of the ResumeOutput, is raised
LinkEntities(doc, given, now) ==
    ResumeOf(doc, Extracted(doc, SectionsOf(doc), now), given)

\* link_entities invoked, for the first time or again on the same arguments:
\* the result of the invocation before is kept for comparison
LinkEntitiesCall ==
    /\ pc \in {"link_entities", "linked"}
    /\ earlier' = resume
    /\ resume' = LinkEntities(document, embeddings, utcnow)
    /\ pc' = IF pc = "link_entities" THEN "linked" ELSE "linked_again"
    /\ UNCHANGED <<sectionVars, lineVars, dateVars, payload, dumped, reloaded,
                   embeddings, utcnow>>

\* time passes between two invocations: datetime.utcnow() reads a later month
ClockTick ==
    /\ pc = "linked"
    /\ \E later \in NowValues :
          /\ later.year * 12 + later.month > utcnow.year * 12 + utcnow.month
          /\ utcnow' = later
    /\ UNCHANGED <<pc, sectionVars, lineVars, dateVars, schemaVars,
                   embeddings, earlier>>

(***************************************************************************)
(* Documents and embeddings handed to link_entities.                       *)
(***************************************************************************)
MaxBlocks == 2   \* blocks of lines of a document

\* the lines 'Jane Doe' and 'jane@example.com'
HeaderLines ==
    << <<<<"J","a","n","e">>, <<"D","o","e">>>>,
       <<<<"j","a","n","e","@","e","x","a","m","p","l","e",".","c","o","m">>>> >>

\* an education section of the shape 'Institution, Degree Field, YYYY-YYYY'
EducationLines ==
    << <<<<"E","d","u","c","a","t","i","o","n">>>>,
       <<<<"M","I","T",",">>, <<"B",".","S","c">>, <<"C","o","m","p","u","t","e","r">>, <<"S","c","i","e","n","c","e",",">>, <<"2","0","1","8","-","2","0","2","2">>>> >>

\* a skills section
SkillsLines ==
    << <<<<"S","k","i","l","l","s">>>>,
       <<<<"P","y","t","h","o","n",",">>, <<"S","Q","L",",">>, <<"G","o">>>> >>

\* an education section whose date has month 13
EducationMonth13Lines ==
    << <<<<"E","d","u","c","a","t","i","o","n">>>>,
       <<<<"M","I","T">>, <<"2","0","1","9","/","1","3">>>> >>

\* a work section with a position still held
WorkPresentLines ==
    << <<<<"E","x","p","e","r","i","e","n","c","e">>>>,
       <<<<"E","n","g","i","n","e","e","r">>, <<"a","t">>, <<"A","C","M","E">>, <<"J","a","n">>, <<"2","0","1","9">>, <<"-">>, <<"P","r","e","s","e","n","t">>>>,
       <<<<"-">>, <<"b","u","i","l","t">>, <<"t","h","i","n","g","s">>>> >>

\* a work section whose date has month 13
WorkMonth13Lines ==
    << <<<<"E","x","p","e","r","i","e","n","c","e">>>>,
       <<<<"E","n","g","i","n","e","e","r">>, <<"a","t">>, <<"A","C","M","E">>, <<"2","0","1","9","/","1","3">>>> >>

\* a work section whose date has year 0000
WorkYear0Lines ==
    << <<<<"E","x","p","e","r","i","e","n","c","e">>>>,
       <<<<"C","l","e","r","k">>, <<"0","0","0","0">>>> >>

\* a certifications section whose date has month 13
CertificationLines ==
    << <<<<"C","e","r","t","i","f","i","c","a","t","i","o","n","s">>>>,
       <<<<"A","W","S">>, <<"2","0","1","9","/","1","3">>>> >>

\* a projects section
ProjectLines ==
    << <<<<"P","r","o","j","e","c","t","s">>>>,
       <<<<"P","a","r","s","e","r">>, <<"-">>, <<"P","y","t","h","o","n","/","S","Q","L">>>> >>

\* a languages section
LanguageLines ==
    << <<<<"L","a","n","g","u","a","g","e","s">>>>,
       <<<<"E","n","g","l","i","s","h">>, <<"-">>, <<"n","a","t","i","v","e">>>> >>

TxtResumePdf == <<"c","v",".","p","d","f">>
TxtRawContact == <<"j","a","n","e","@","e","x","a","m","p","l","e",".","c","o","m"," ","+","1"," ","5","5","5"," ","1","2","3"," ","4","5","6","7"," ","h","t","t","p",":","/","/","x",".","y">>

LineBlocks ==
    <<HeaderLines, EducationLines, SkillsLines, EducationMonth13Lines,
      WorkPresentLines, WorkMonth13Lines, WorkYear0Lines, CertificationLines,
      ProjectLines, LanguageLines>>

\* the lines of the chosen blocks, in the order of LineBlocks
LinesOf(chosen) ==
    LET order == SortedInts(chosen)
    IN  Concat([n \in DOMAIN order |-> LineBlocks[order[n]]])

\* the lines of the end-to-end example
ExampleLines == HeaderLines \o EducationLines \o SkillsLines

\* the tokens of a page whose words are laid out line by line: the words of
\* the n-th line share a line bucket and follow each other from left to right
RECURSIVE PageTokens(_, _, _)
PageTokens(lines, n, base) ==
    IF n > Len(lines) THEN <<>>
    ELSE [i \in DOMAIN lines[n] |->
             [id |-> base + i, text |-> lines[n][i],
              bbox |-> [x0 |-> 10 * (i - 1), y0 |-> LineBucket * (n - 1),
                        x1 |-> 10 * (i - 1) + 5, y1 |-> LineBucket * (n - 1) + 8],
              page |-> 0, metadata |-> <<>>]]
         \o PageTokens(lines, n + 1, base + Len(lines[n]))

\* a DocumentContent of one page
PageDocument(lines) ==
    [pages |-> <<PageTokens(lines, 1, 0)>>,
     raw_text |-> StrVal(<<>>), file_path |-> StrVal(TxtResumePdf)]

\* a DocumentContent without pages
EmptyDocument(raw_text, file_path) ==
    [pages |-> <<>>, raw_text |-> StrVal(raw_text), file_path |-> StrVal(file_path)]

ExampleDocument == PageDocument(ExampleLines)

\* the document is one without pages, the end-to-end example, or one page of
\* up to MaxBlocks blocks of lines
IsLinkDocument(doc) ==
    \/ \E raw_text \in {<<>>, TxtRawContact} : \E file_path \in {<<>>, TxtResumePdf} :
          doc = EmptyDocument(raw_text, file_path)
    \/ doc = ExampleDocument
    \/ \E chosen \in SUBSET DOMAIN LineBlocks :
          /\ Cardinality(chosen) <= MaxBlocks
          /\ doc = PageDocument(LinesOf(chosen))

\* the embeddings argument: omitted, or a list of one TokenEmbedding for
\* each of the first tokens of the document
EmbeddingCounts == {0, 12}
EmbeddingValues ==
    {None} \cup {ListVal([i \in 1..n |-> [kind |-> "embedding", token |-> i]]) :
                    n \in EmbeddingCounts}

InitLink ==
    /\ pc = "link_entities"
    /\ IsLinkDocument(document)
    /\ pos = 1
    /\ current_section = "other_sections"
    /\ sections = EmptySections
    /\ IdleLines
    /\ IdleDates
    /\ IdleSchema
    /\ embeddings \in EmbeddingValues
    /\ utcnow \in NowValues
    /\ earlier = None

NextLink == LinkEntitiesCall \/ ClockTick

SpecLink == InitLink /\ [][NextLink]_vars


(***************************************************************************)
(* Claims about link_entities.                                             *)
(***************************************************************************)
\* an invocation of link_entities has ended
Returned == pc \in {"linked", "linked_again"}

\* C12: no date-like text in the input makes link_entities raise: whatever
\* the tokens are, the invocation returns a ResumeOutput (a date that cannot
\* be parsed would be an absent field, never an exception).
C12_DateTextNeverRaises ==
    Returned => resume.kind = "object"

TxtJaneDoe == <<"J","a","n","e"," ","D","o","e">>
TxtJaneEmail == <<"j","a","n","e","@","e","x","a","m","p","l","e",".","c","o","m">>
TxtMIT == <<"M","I","T">>
TxtBSc == <<"B",".","S","c">>
TxtPython == <<"P","y","t","h","o","n">>
TxtSQL == <<"S","Q","L">>
TxtGo == <<"G","o">>

StartsWith(value, prefix) ==
    /\ value.kind = "str"
    /\ Len(value.s) >= Len(prefix)
    /\ SubSeq(value.s, 1, Len(prefix)) = prefix

\* C14: on the end-to-end example link_entities returns the name 'Jane Doe',
\* the email 'jane@example.com', exactly one education entry whose
\* institution starts with 'MIT' and whose degree contains 'B.Sc', with the
\* dates '2018' and '2022', and the skills Python, SQL, Go in that order.
C14_ExampleIsExtracted ==
    (Returned /\ document = ExampleDocument) =>
        /\ resume.kind = "object"
        /\ resume.f.contact.f.name = StrVal(TxtJaneDoe)
        /\ resume.f.contact.f.email = StrVal(TxtJaneEmail)
        /\ Len(resume.f.education.items) = 1
        /\ LET entry == resume.f.education.items[1]
           IN  /\ StartsWith(entry.f.institution, TxtMIT)
               /\ entry.f.degree.kind = "str"
               /\ Contains(entry.f.degree.s, TxtBSc)
               /\ entry.f.start_date = StrVal(FormatYear(2018))
               /\ entry.f.end_date = StrVal(FormatYear(2022))
        /\ [n \in DOMAIN resume.f.skills.items |->
               resume.f.skills.items[n].f.name]
           = <<StrVal(TxtPython), StrVal(TxtSQL), StrVal(TxtGo)>>

\* C16: for a document without pages link_entities returns a ResumeOutput in
\* which every list is empty and every field of the contact is unset,
\* whatever the raw text and the file path of the document are.
C16_EmptyDocumentIsEmptyResume ==
    (Returned /\ document.pages = <<>>) =>
        /\ resume.kind = "object"
        /\ \A n \in DOMAIN ResumeSections :
              resume.f[ResumeSections[n].key].items = <<>>
        /\ \A key \in EntityFields["Contact"] : resume.f.contact.f[key] = None

\* the note link_entities writes for n embeddings
EmbeddingsNote(n) == StrVal(StrTokenEmbeddings \o DecimalDigits(n))

\* two results of link_entities that agree on everything but meta.notes
AgreeButNotes(a, b) ==
    IF a.kind = "object" /\ b.kind = "object"
    THEN /\ \A key \in ResumeKeys \ {"meta"} : a.f[key] = b.f[key]
         /\ a.f.meta.f.source = b.f.meta.f.source
    ELSE a = b

\* C17: supplying embeddings changes nothing but meta.notes: the result of
\* link_entities(document, embeddings) agrees with what link_entities(document)
\* returns on the contact, every entry list and meta.source, and its
\* meta.notes carries 'token_embeddings=<number of supplied embeddings>'.
C17_SuppliedEmbeddingsAreCounted ==
    (Returned /\ embeddings # None) =>
        /\ AgreeButNotes(resume, LinkEntities(document, None, utcnow))
        /\ resume.kind = "object" =>
              resume.f.meta.f.notes = EmbeddingsNote(Len(embeddings.items))

\* C18: link_entities is a function of its arguments alone: a second
\* invocation on the same document and the same embeddings, at whatever
\* moment, returns a value equal to the first.
C18_InvocationsAgree ==
    pc = "linked_again" => resume = earlier

(***************************************************************************)
(* Payload sanitizer (sanitize_resume_payload of slm_refine.py).           *)
(***************************************************************************)
ALLOWED_TOP_LEVEL_KEYS ==
    {"contact", "education", "work_experience", "skills", "certifications",
     "projects", "publications", "languages", "other_sections", "meta"}
CONTACT_KEYS == {"name", "email", "phone", "website", "location", "raw"}
EDUCATION_KEYS ==
    {"institution", "degree", "field_of_study", "start_date", "end_date",
     "grade", "location"}
WORK_KEYS ==
    {"company", "position", "start_date", "end_date", "duration_months",
     "location", "description"}
SKILL_KEYS == {"name", "category", "proficiency"}
CERTIFICATION_KEYS == {"name", "issuer", "date"}
PROJECT_KEYS ==
    {"name", "role", "start_date", "end_date", "description", "technologies"}
PUBLICATION_KEYS == {"title", "venue", "date", "description"}
LANGUAGE_KEYS == {"name", "proficiency"}
OTHER_SECTION_KEYS == {"label", "content"}
META_KEYS == {"source", "notes"}
ARRAY_KEYS ==
    {"education", "work_experience", "skills", "certifications", "projects",
     "publications", "languages", "other_sections"}

\* the key set sanitize_resume_payload filters the entries of a section with
SectionKeys ==
    [education |-> EDUCATION_KEYS, work_experience |-> WORK_KEYS,
     skills |-> SKILL_KEYS, certifications |-> CERTIFICATION_KEYS,
     projects |-> PROJECT_KEYS, publications |-> PUBLICATION_KEYS,
     languages |-> LANGUAGE_KEYS, other_sections |-> OTHER_SECTION_KEYS]

\* mapping[key] = value
Put(mapping, key, value) ==
    DictVal([k \in DOMAIN mapping.d \cup {key} |->
                IF k = key THEN value ELSE mapping.d[k]])

\* _filter_dict
FilterDict_KeepAll(source, allowed_keys) ==
    IF source.kind # "dict" THEN EmptyDict ELSE source

FilterDict(source, allowed_keys) ==
    IF source.kind # "dict" THEN EmptyDict
    ELSE DictVal([key \in allowed_keys \cap DOMAIN source.d |-> source.d[key]])

\* what _sanitize_array appends for one entry, or nothing
SanitizedEntries(entry, allowed_keys) ==
    IF entry.kind = "dict" THEN <<FilterDict(entry, allowed_keys)>>
    ELSE IF allowed_keys = SKILL_KEYS /\ entry.kind = "str"
    THEN <<DictVal([name |-> entry])>>
    ELSE IF allowed_keys = LANGUAGE_KEYS /\ entry.kind = "str"
    THEN <<DictVal([name |-> entry])>>
    ELSE IF allowed_keys = OTHER_SECTION_KEYS /\ entry.kind = "str"
    THEN <<DictVal([label |-> StrVal(StrOther), content |-> entry])>>
    ELSE <<>>

\* _sanitize_array
SanitizeArray(items, allowed_keys) ==
    IF items.kind # "list" THEN <<>>
    ELSE Concat([n \in DOMAIN items.items |->
                    SanitizedEntries(items.items[n], allowed_keys)])

\* str(value) of None, a string or an integer
Str(value) ==
    CASE value.kind = "none" -> <<"N","o","n","e">>
      [] value.kind = "str" -> value.s
      [] value.kind = "int" ->
            IF value.n < 0 THEN <<"-">> \o DecimalDigits(0 - value.n)
            ELSE DecimalDigits(value.n)

\* [str(item).strip() for item in value if str(item).strip()]
StrippedStrs(items) ==
    LET texts == StrippedPieces([n \in DOMAIN items |-> Str(items[n])])
    IN  ListVal([n \in DOMAIN texts |-> StrVal(texts[n])])

\* _stringify_fields: the fields among string_keys that are neither None nor
\* "" become a list of strings when they are a list, their str() otherwise
StringifyFields_NoSkip(entry, string_keys) ==
    DictVal([key \in DOMAIN entry.d |->
        LET value == entry.d[key]
        IN  IF key \notin string_keys
            THEN value
            ELSE IF value.kind = "list" THEN StrippedStrs(value.items)
            ELSE IF value.kind # "str"
            THEN StrVal(Strip(Str(value), Whitespace))
            ELSE value])

StringifyFields(entry, string_keys) ==
    DictVal([key \in DOMAIN entry.d |->
        LET value == entry.d[key]
        IN  IF key \notin string_keys \/ value = None \/ value = StrVal(<<>>)
            THEN value
            ELSE IF value.kind = "list" THEN StrippedStrs(value.items)
            ELSE IF value.kind # "str"
            THEN StrVal(Strip(Str(value), Whitespace))
            ELSE value])

\* the list sanitize_resume_payload makes of a description or of technologies
ListOfStrs(value) ==
    IF value.kind = "list" THEN StrippedStrs(value.items)
    ELSE IF Truthy(value) THEN ListVal(<<StrVal(Strip(Str(value), Whitespace))>>)
    ELSE ListVal(<<>>)

\* int(text) of a string: surrounding whitespace, a sign, and decimal digits
\* that single underscores may separate; ValueError otherwise
IntOfStr(text) ==
    LET stripped == Strip(text, Whitespace)
        signed == stripped # <<>> /\ stripped[1] \in {"+", "-"}
        body == IF signed THEN Tail(stripped) ELSE stripped
        wellFormed ==
            /\ body # <<>>
            /\ \A i \in DOMAIN body :
                  \/ IsDigit(body[i])
                  \/ /\ body[i] = "_"
                     /\ i > 1 /\ i < Len(body)
                     /\ IsDigit(body[i - 1]) /\ IsDigit(body[i + 1])
        magnitude == IntOfDigits(SelectSeq(body, IsDigit))
    IN  IF ~wellFormed THEN Raised("ValueError")
        ELSE IntVal(IF signed /\ stripped[1] = "-" THEN 0 - magnitude
                    ELSE magnitude)

\* int(value)
IntOf(value) ==
    CASE value.kind = "int" -> value
      [] value.kind = "str" -> IntOfStr(value.s)
      [] OTHER -> Raised("TypeError")

\* the duration of a work entry: left alone when it is None or "", else
\* int(duration), or None when int raises
NoneIfRaised(converted) == IF converted.kind = "raise" THEN None ELSE converted

WithDurationOf(entry, duration) ==
    IF duration = None \/ duration = StrVal(<<>>) THEN entry
    ELSE Put(entry, "duration_months", NoneIfRaised(IntOf(duration)))

WithDuration(entry) ==
    WithDurationOf(entry, Get(entry, "duration_months", None))

\* the loop body of sanitize_resume_payload for a work entry
WorkEntry(entry) ==
    WithDuration(
        StringifyFields(
            Put(entry, "description",
                ListOfStrs(Get(entry, "description", None))),
            WORK_KEYS \ {"duration_months", "description"}))

\* the loop body of sanitize_resume_payload for a project entry
ProjectEntry(entry) ==
    LET stringified == StringifyFields(entry, PROJECT_KEYS \ {"technologies"})
    IN  Put(stringified, "technologies",
            ListOfStrs(Get(stringified, "technologies", None)))

\* the sanitized entries of a section
SanitizedSection(mapping, key) ==
    LET entries == SanitizeArray(Get(mapping, key, None), SectionKeys[key])
    IN  ListVal([n \in DOMAIN entries |->
            CASE key = "work_experience" -> WorkEntry(entries[n])
              [] key = "projects" -> ProjectEntry(entries[n])
              [] OTHER -> StringifyFields(entries[n], SectionKeys[key])])

\* the mapping sanitize_resume_mapping hands to ResumeOutput.from_dict
Sanitized(mapping) ==
    DictVal([key \in ALLOWED_TOP_LEVEL_KEYS |->
        CASE key = "contact" ->
                StringifyFields(FilterDict(Get(mapping, "contact", None),
                                           CONTACT_KEYS), CONTACT_KEYS)
          [] key = "meta" ->
                StringifyFields(FilterDict(Get(mapping, "meta", None),
                                           META_KEYS), META_KEYS)
          [] OTHER -> SanitizedSection(mapping, key)])

\* resume.validate(); return resume.to_dict(): an exception of from_dict or
\* of validate leaves sanitize_resume_payload
ValidatedToDict(built) ==
    IF built.kind = "raise" THEN built
    ELSE IF Validate(built).kind = "raise" THEN Validate(built)
    ELSE ToDict(built)

\* sanitize_resume_payload: the mapping returned, or the exception raised
SanitizeResumePayload(mapping) == ValidatedToDict(FromDict(Sanitized(mapping)))

SanitizeCall ==
    /\ pc = "sanitize"
    /\ resume' = FromDict(Sanitized(payload))
    /\ dumped' = SanitizeResumePayload(payload)
    /\ pc' = "sanitized"
    /\ UNCHANGED <<payload, reloaded, sectionVars, lineVars, dateVars, linkVars>>

(***************************************************************************)
(* Payloads handed to sanitize_resume_payload.                             *)
(***************************************************************************)
MaxItems == 2   \* items of a section of a payload

TxtAcme == <<"A","C","M","E">>
TxtDidThings == <<"d","i","d"," ","t","h","i","n","g","s"," ">>

\* values given for duration_months
DurationInputs ==
    {None, StrVal(<<>>), StrVal(<<"1","2">>), StrVal(<<" ","7"," ">>), StrVal(<<"3",".","7">>),
     StrVal(TxtX), IntVal(3), IntVal(0), ListVal(<<IntVal(1)>>)}

\* values given for a description or for technologies
TextListInputs ==
    {None, StrVal(<<>>), StrVal(TxtDidThings), StrVal(<<" "," ">>), IntVal(0),
     IntVal(5), ListVal(<<StrVal(<<"a"," ">>), IntVal(3), StrVal(<<>>), None>>)}

\* items given for a section: mappings with and without keys outside the
\* schema, plain strings, and values that are neither
SectionInputs(key) ==
    {StrVal(TxtGo), IntVal(7), None,
     DictVal([score |-> IntVal(5)])}
    \cup
    CASE key = "education" ->
            {DictVal([institution |-> IntVal(5), start_date |-> IntVal(2019),
                      rank |-> IntVal(1)]),
             DictVal([institution |-> StrVal(TxtMIT),
                      start_date |-> StrVal(<<"2","0","1","9","-","1","3">>)])}
      [] key = "work_experience" ->
            {DictVal([company |-> StrVal(TxtAcme), duration_months |-> d,
                      salary |-> IntVal(1)]) : d \in DurationInputs}
            \cup {DictVal([company |-> IntVal(5), description |-> d]) :
                      d \in TextListInputs}
      [] key = "skills" ->
            {DictVal([name |-> IntVal(5)]),
             DictVal([name |-> StrVal(TxtGo), level |-> IntVal(3)])}
      [] key = "certifications" ->
            {DictVal([name |-> StrVal(<<"A","W","S">>), date |-> IntVal(2021)]),
             DictVal([name |-> StrVal(<<"A","W","S">>), date |-> StrVal(TxtSoon)])}
      [] key = "projects" ->
            {DictVal([name |-> IntVal(5), technologies |-> d, stars |-> IntVal(9)]) :
                 d \in TextListInputs}
      [] key = "publications" ->
            {DictVal([title |-> ListVal(<<StrVal(<<"a"," ">>), IntVal(2)>>)]),
             DictVal([title |-> StrVal(TxtX), doi |-> StrVal(TxtX)])}
      [] key = "languages" ->
            {DictVal([name |-> StrVal(<<"E","n","g","l","i","s","h">>), proficiency |-> IntVal(5)])}
      [] key = "other_sections" ->
            {DictVal([label |-> StrVal(TxtX), content |-> IntVal(0)])}

ContactInputs ==
    {EmptyDict, None, StrVal(TxtJane),
     DictVal([name |-> IntVal(5), email |-> StrVal(TxtJaneEmail),
              fax |-> StrVal(TxtX)])}

MetaInputs ==
    {EmptyDict, None,
     DictVal([source |-> StrVal(TxtResumePdf), notes |-> IntVal(3),
              model |-> StrVal(TxtX)]),
     DictVal([source |-> None, notes |-> StrVal(<<>>)])}

\* a payload: one section given as a list of items or as something else, or
\* a contact, a meta and a key outside the schema
IsSanitizePayload(p) ==
    \/ \E key \in ARRAY_KEYS :
       \E k \in 0..MaxItems :
       \E items \in [1..k -> SectionInputs(key)] :
           p = DictVal([x \in {key} |-> ListVal(items)])
    \/ \E key \in ARRAY_KEYS :
       \E value \in {None, StrVal(TxtGo), DictVal([name |-> StrVal(TxtGo)])} :
           p = DictVal([x \in {key} |-> value])
    \/ \E keys \in SUBSET {"contact", "meta", "score"} :
       \E contact \in ContactInputs :
       \E meta \in MetaInputs :
           /\ "contact" \notin keys => contact = EmptyDict
           /\ "meta" \notin keys => meta = EmptyDict
           /\ p = DictVal([x \in keys |->
                              CASE x = "contact" -> contact
                                [] x = "meta" -> meta
                                [] OTHER -> IntVal(5)])

InitSanitize ==
    /\ pc = "sanitize"
    /\ IsSanitizePayload(payload)
    /\ resume = None
    /\ dumped = None
    /\ reloaded = None
    /\ IdleSections
    /\ IdleLines
    /\ IdleDates
    /\ IdleLink

NextSanitize == SanitizeCall

SpecSanitize == InitSanitize /\ [][NextSanitize]_vars


(***************************************************************************)
(* Claims about the payload sanitizer.                                     *)
(***************************************************************************)
\* the class of the entries of a section
ClassOf(key) ==
    ResumeSections[CHOOSE n \in DOMAIN ResumeSections :
                       ResumeSections[n].key = key].cls

\* a mapping without the keys outside a set; any other value as it is
Only(value, keys) ==
    IF value.kind = "dict"
    THEN DictVal([k \in DOMAIN value.d \cap keys |-> value.d[k]])
    ELSE value

\* a payload without the keys outside the schema: those at the top level,
\* those of the contact and of the meta, and those of every entry
Pruned(p) ==
    DictVal([key \in DOMAIN p.d \cap ResumeKeys |->
        LET value == p.d[key]
        IN  IF key = "contact" THEN Only(value, EntityFields["Contact"])
            ELSE IF key = "meta" THEN Only(value, EntityFields["Meta"])
            ELSE IF value.kind = "list"
            THEN ListVal([n \in DOMAIN value.items |->
                             Only(value.items[n], EntityFields[ClassOf(key)])])
            ELSE value])

\* C19: whenever sanitize_resume_payload succeeds the result has exactly the
\* ten top-level keys, its eight sections are lists and its contact and meta
\* mappings, and every entry holds only field names of its entity type; a
\* key outside the schema is dropped: the result is that of the payload
\* without such keys.
C19_OnlySchemaKeysSurvive ==
    pc = "sanitized" =>
        /\ dumped = SanitizeResumePayload(Pruned(payload))
        /\ dumped.kind = "dict" =>
              /\ DOMAIN dumped.d = ResumeKeys
              /\ dumped.d.contact.kind = "dict"
              /\ DOMAIN dumped.d.contact.d \subseteq EntityFields["Contact"]
              /\ dumped.d.meta.kind = "dict"
              /\ DOMAIN dumped.d.meta.d \subseteq EntityFields["Meta"]
              /\ \A n \in DOMAIN ResumeSections :
                    LET section == dumped.d[ResumeSections[n].key]
                    IN  /\ section.kind = "list"
                        /\ \A i \in DOMAIN section.items :
                              /\ section.items[i].kind = "dict"
                              /\ DOMAIN section.items[i].d
                                    \subseteq EntityFields[ResumeSections[n].cls]

\* a payload with a key outside the schema at the top level, in its contact
\* and in its meta is sanitized
C19_Witness ==
    /\ pc = "sanitized"
    /\ DOMAIN payload.d = {"contact", "meta", "score"}
    /\ payload.d.contact.kind = "dict"
    /\ "fax" \in DOMAIN payload.d.contact.d
    /\ payload.d.meta.kind = "dict"
    /\ "model" \in DOMAIN payload.d.meta.d
    /\ dumped.kind = "dict"
    /\ dumped.d.contact.d.email = StrVal(TxtJaneEmail)
    /\ DOMAIN dumped.d.meta.d = {"source", "notes"}

\* an item _sanitize_array keeps: a mapping, or a plain string in a section
\* that takes strings
KeptItem(key, item) ==
    \/ item.kind = "dict"
    \/ item.kind = "str" /\ key \in {"skills", "languages", "other_sections"}

\* the record of an entity whose fields are unset but for those given
RecordOf(cls, given) ==
    DictVal([k \in EntityFields[cls] |->
                IF k \in DOMAIN given THEN given[k] ELSE FieldDefault(cls, k)])

\* what C20 says of one item of a section and the entry made of it
ResolvedAsClaimed(key, item, entry) ==
    /\ (item.kind = "str" /\ key \in {"skills", "languages"}) =>
          entry = RecordOf(ClassOf(key), [name |-> item])
    /\ (item.kind = "str" /\ key = "other_sections") =>
          entry = RecordOf("OtherSection",
                           [label |-> StrVal(StrOther), content |-> item])
    /\ item.kind = "dict" =>
          \A k \in DOMAIN item.d \cap EntityFields[ClassOf(key)] :
              LET value == item.d[k]
                  scalar == /\ value.kind \in {"str", "int"}
                            /\ Strip(Str(value), Whitespace) # <<>>
              IN  /\ (value.kind = "int"
                        /\ k \notin {"duration_months", "description", "technologies"})
                     => entry.d[k] = StrVal(Str(value))
                  /\ (scalar /\ \/ key = "work_experience" /\ k = "description"
                                \/ key = "projects" /\ k = "technologies")
                     => /\ entry.d[k].kind = "list"
                        /\ Len(entry.d[k].items) = 1
                  /\ k = "duration_months" =>
                        entry.d[k].kind \in {"int", "none"}

\* C20: scalar entries are resolved into canonical records: a plain string
\* in skills or languages becomes a record named by it, one in
\* other_sections the record with label 'other' and the string as content;
\* a scalar that is no string becomes its string form, a scalar description
\* or technologies value (one that is not blank) a one-element list, and
\* duration_months an integer or none.
C20_ScalarsBecomeCanonicalRecords ==
    (pc = "sanitized" /\ dumped.kind = "dict") =>
        \A key \in ARRAY_KEYS \cap DOMAIN payload.d :
            LET given == payload.d[key]
            IN  (/\ given.kind = "list"
                 /\ \A n \in DOMAIN given.items : KeptItem(key, given.items[n]))
                => /\ Len(dumped.d[key].items) = Len(given.items)
                   /\ \A n \in DOMAIN given.items :
                         ResolvedAsClaimed(key, given.items[n],
                                           dumped.d[key].items[n])

(***************************************************************************)
(* Refinement (refine_resume_json of slm_refine.py).  The response of the  *)
(* language model is a text; json.loads is modelled on the texts of        *)
(* SlmResponses: objects, arrays, strings without escapes, integers and    *)
(* null.                                                                   *)
(***************************************************************************)
MaxStrDigits == 4300   \* sys.get_int_max_str_digits() of Python 3.11

JsonWhitespace == {" ", "\t", "\n", "\r"}

JsonOk(value, next) == [ok |-> TRUE, value |-> value, next |-> next]
JsonFail(exc) == [ok |-> FALSE, exc |-> exc]

\* the position after the whitespace from position i
SkipWs(t, i) == RunEnd(t, i, JsonWhitespace)

\* the key of a mapping for the characters of a JSON string
RECURSIVE KeyOf(_)
KeyOf(s) == IF s = <<>> THEN "" ELSE s[1] \o KeyOf(Tail(s))

\* the string whose opening quote is before position i and whose closing
\* quote is expected at position e
StringUpTo(t, i, e) ==
    IF e <= Len(t) /\ t[e] = "\""
    THEN JsonOk(StrVal(SubSeq(t, i, e - 1)), e + 1)
    ELSE JsonFail("JSONDecodeError")

\* STRINGCHUNK stops at a quote, a backslash or a control character; a
\* control character inside a string is an error (strict mode)
JsonString(t, i) ==
    StringUpTo(t, i, RunEndNot(t, i, {"\"", "\\", "\t", "\n", "\r"}))

\* NUMBER_RE matched at position i with its digits in d .. e-1; int() of
\* more than MaxStrDigits digits raises ValueError
DigitsOf(t, i, d, e) ==
    IF e = d THEN JsonFail("JSONDecodeError")
    ELSE IF t[d] = "0" THEN JsonOk(IntVal(0), d + 1)
    ELSE IF e - d > MaxStrDigits THEN JsonFail("ValueError")
    ELSE JsonOk(IntVal((IF d > i THEN -1 ELSE 1) * IntOfDigits(SubSeq(t, d, e - 1))), e)

NumberFrom(t, i, d) == DigitsOf(t, i, d, RunEnd(t, d, Range(DigitChars)))

JsonNumber(t, i) == NumberFrom(t, i, IF t[i] = "-" THEN i + 1 ELSE i)

RECURSIVE JsonValue(_, _)
RECURSIVE JsonMembers(_, _, _)
RECURSIVE JsonElements(_, _, _)

\* after a member of an object: "}" closes it, "," requires another member
MemberEnd(t, acc, i) ==
    IF i > Len(t) THEN JsonFail("JSONDecodeError")
    ELSE IF t[i] = "}" THEN JsonOk(acc, i + 1)
    ELSE IF t[i] = "," THEN JsonMembers(t, SkipWs(t, i + 1), acc)
    ELSE JsonFail("JSONDecodeError")

MemberAfterValue(t, acc, key, parsed) ==
    IF ~parsed.ok THEN parsed
    ELSE MemberEnd(t, Put(acc, KeyOf(key.s), parsed.value), SkipWs(t, parsed.next))

MemberValue(t, acc, key, colon) ==
    IF colon > Len(t) \/ t[colon] # ":" THEN JsonFail("JSONDecodeError")
    ELSE MemberAfterValue(t, acc, key, JsonValue(t, SkipWs(t, colon + 1)))

MemberAfterKey(t, acc, key) ==
    IF ~key.ok THEN key ELSE MemberValue(t, acc, key.value, SkipWs(t, key.next))

\* the members of an object from position i, added to acc
JsonMembers(t, i, acc) ==
    IF i > Len(t) \/ t[i] # "\"" THEN JsonFail("JSONDecodeError")
    ELSE MemberAfterKey(t, acc, JsonString(t, i + 1))

JsonObject(t, i) ==
    IF i <= Len(t) /\ t[i] = "}" THEN JsonOk(EmptyDict, i + 1)
    ELSE JsonMembers(t, i, EmptyDict)

\* after an element of an array: "]" closes it, "," requires another element
ElementEnd(t, acc, i) ==
    IF i > Len(t) THEN JsonFail("JSONDecodeError")
    ELSE IF t[i] = "]" THEN JsonOk(ListVal(acc), i + 1)
    ELSE IF t[i] = "," THEN JsonElements(t, SkipWs(t, i + 1), acc)
    ELSE JsonFail("JSONDecodeError")

ElementAfterValue(t, acc, parsed) ==
    IF ~parsed.ok THEN parsed
    ELSE ElementEnd(t, Append(acc, parsed.value), SkipWs(t, parsed.next))

\* the elements of an array from position i, appended to acc
JsonElements(t, i, acc) == ElementAfterValue(t, acc, JsonValue(t, i))

JsonArray(t, i) ==
    IF i <= Len(t) /\ t[i] = "]" THEN JsonOk(ListVal(<<>>), i + 1)
    ELSE JsonElements(t, i, <<>>)

\* scan_once at position i
JsonValue(t, i) ==
    IF i > Len(t) THEN JsonFail("JSONDecodeError")
    ELSE CASE t[i] = "\"" -> JsonString(t, i + 1)
           [] t[i] = "{" -> JsonObject(t, SkipWs(t, i + 1))
           [] t[i] = "[" -> JsonArray(t, SkipWs(t, i + 1))
           [] t[i] = "n" ->
                IF i + 3 <= Len(t) /\ SubSeq(t, i, i + 3) = <<"n","u","l","l">>
                THEN JsonOk(None, i + 4) ELSE JsonFail("JSONDecodeError")
           [] OTHER -> JsonNumber(t, i)

\* the whole text is one value between whitespace
WholeText(t, parsed) ==
    IF ~parsed.ok THEN parsed
    ELSE IF SkipWs(t, parsed.next) # Len(t) + 1 THEN JsonFail("JSONDecodeError")
    ELSE parsed

\* json.loads(t)
JsonLoads(t) == WholeText(t, JsonValue(t, SkipWs(t, 1)))

\* str.replace(old, "", 1)
WithoutAt(s, i, n) == SubSeq(s, 1, i - 1) \o SubSeq(s, i + n, Len(s))

WithoutFirst(s, old, found) ==
    IF found = {} THEN s
    ELSE WithoutAt(s, CHOOSE i \in found : \A j \in found : i <= j, Len(old))

ReplaceFirst(s, old) == WithoutFirst(s, old, Occurrences(s, old))

\* "BACKTICK" stands for the character U+0060
TxtFence == <<"BACKTICK","BACKTICK","BACKTICK">>
TxtJson == <<"j","s","o","n">>

\* a fenced candidate loses its backticks and the first "json"
Unfenced(stripped) ==
    IF Len(stripped) >= 3 /\ SubSeq(stripped, 1, 3) = TxtFence
    THEN Strip(ReplaceFirst(Strip(stripped, {"BACKTICK"}), TxtJson), Whitespace)
    ELSE stripped

\* candidate_text of refine_resume_json
CandidateText(response_text) == Unfenced(Strip(response_text, Whitespace))

\* sanitize_resume_payload(candidate_json): payload.get of a value that is
\* no mapping raises AttributeError
SanitizeCandidate(candidate_json) ==
    IF candidate_json.kind # "dict" THEN Raised("AttributeError")
    ELSE SanitizeResumePayload(candidate_json)

\* except Exception: return baseline
RefinedOrBaseline(baseline, refined) ==
    IF refined.kind = "raise" THEN baseline ELSE refined

\* except json.JSONDecodeError: return baseline; any other exception of
\* json.loads leaves refine_resume_json
LoadedOrBaseline(baseline, loaded) ==
    IF ~loaded.ok
    THEN IF loaded.exc = "JSONDecodeError" THEN baseline ELSE Raised(loaded.exc)
    ELSE RefinedOrBaseline(baseline, SanitizeCandidate(loaded.value))

\* refine_resume_json once the baseline is computed
AfterBaseline(baseline, enabled, response_text) ==
    IF baseline.kind = "raise" \/ ~enabled \/ ~Truthy(response_text) THEN baseline
    ELSE LoadedOrBaseline(baseline, JsonLoads(CandidateText(response_text.s)))

\* refine_resume_json(raw_json, raw_text) with ENABLE_SLM = enabled and
\* _call_slm returning response_text
RefineResumeJson(raw_json, enabled, response_text) ==
    AfterBaseline(SanitizeResumePayload(raw_json), enabled, response_text)

(***************************************************************************)
(* Responses of _call_slm: none, empty, blank, not JSON, JSON that is no   *)
(* mapping, mappings that fail validation, mappings that pass (plain and   *)
(* fenced), and an integer literal of more than MaxStrDigits digits.       *)
(***************************************************************************)
TxtNotJson == <<"n","o","t"," ","j","s","o","n">>
TxtOpenBrace == <<"{">>
TxtEmptyArray == <<"[","]">>
TxtFive == <<" ","5","\n">>
TxtNull == <<"n","u","l","l">>
TxtQuoted == <<"\"","x","\"">>
TxtExtraData == <<"{","}"," ","{","}">>
TxtSkillsGo ==
    <<"{","\"","s","k","i","l","l","s","\"",":"," ","[","\"","G","o","\"",
      ","," ","{","\"","n","a","m","e","\"",":","\"","S","Q","L","\"",",",
      "\"","l","e","v","e","l","\"",":","-","3","}","]","}">>
TxtBadDate ==
    <<"{","\"","e","d","u","c","a","t","i","o","n","\"",":","[","{",
      "\"","s","t","a","r","t","_","d","a","t","e","\"",":",
      "\"","s","o","o","n","\"","}","]","}">>
TxtContactFive ==
    <<"{","\"","c","o","n","t","a","c","t","\"",":","5",",",
      "\"","s","c","o","r","e","\"",":","n","u","l","l","}">>
TxtFenced == TxtFence \o TxtJson \o <<"\n">> \o TxtSkillsGo \o <<"\n">> \o TxtFence
TxtManyDigits == [i \in 1..(MaxStrDigits + 1) |-> "9"]

SlmResponses ==
    {None, StrVal(<<>>), StrVal(<<" "," ">>), StrVal(TxtNotJson),
     StrVal(TxtOpenBrace), StrVal(TxtEmptyArray), StrVal(TxtFive),
     StrVal(TxtNull), StrVal(TxtQuoted), StrVal(TxtExtraData),
     StrVal(TxtSkillsGo), StrVal(TxtBadDate), StrVal(TxtContactFive),
     StrVal(TxtFenced), StrVal(TxtManyDigits)}

\* raw_json: the output of the parser, with entries that pass and entries
\* that fail validation
RefinePayloads ==
    {EmptyDict}
    \cup {DictVal([x \in {key} |-> ListVal(<<item>>)]) :
              key \in {"education"}, item \in SectionInputs("education")}
    \cup {DictVal([x \in {key} |-> ListVal(<<item>>)]) :
              key \in {"skills"}, item \in SectionInputs("skills")}
    \cup {DictVal([contact |-> contact, score |-> IntVal(5)]) :
              contact \in ContactInputs}

\* refine_resume_json(raw_json, raw_text) is entered
InitRefine ==
    /\ pc = "refine"
    /\ payload \in RefinePayloads
    /\ call \in {[op |-> "refine_resume_json", ENABLE_SLM |-> e,
                  response_text |-> None] : e \in BOOLEAN}
    /\ ret = None
    /\ resume = None
    /\ dumped = None
    /\ reloaded = None
    /\ IdleSections
    /\ IdleLines
    /\ IdleLink

\* refinement disabled: the baseline is returned, _call_slm is not called
RefineDisabled ==
    /\ pc = "refine"
    /\ ~call.ENABLE_SLM
    /\ dumped' = SanitizeResumePayload(payload)
    /\ ret' = RefineResumeJson(payload, FALSE, None)
    /\ pc' = "refined"
    /\ UNCHANGED <<payload, resume, reloaded, call, sectionVars, lineVars, linkVars>>

\* refinement enabled: _call_slm answers response_text
RefineEnabled ==
    /\ pc = "refine"
    /\ call.ENABLE_SLM
    /\ \E response_text \in SlmResponses :
          /\ call' = [call EXCEPT !.response_text = response_text]
          /\ ret' = RefineResumeJson(payload, TRUE, response_text)
    /\ dumped' = SanitizeResumePayload(payload)
    /\ pc' = "refined"
    /\ UNCHANGED <<payload, resume, reloaded, sectionVars, lineVars, linkVars>>

NextRefine == RefineDisabled \/ RefineEnabled

SpecRefine == InitRefine /\ [][NextRefine]_vars

\* json.loads of the response of the call, and what sanitising it gives
LoadedResponse == JsonLoads(CandidateText(call.response_text.s))

\* C21: refine_resume_json returns the baseline sanitize_resume_payload(raw_json)
\* when refinement is disabled, the response is empty, is no JSON or fails
\* sanitisation; it returns the sanitised response otherwise; and once the
\* baseline is computed no response makes the call raise
C21_RefineFallsBackToBaseline ==
    (pc = "refined" /\ dumped.kind # "raise") =>
        /\ ret.kind # "raise"
        /\ IF /\ call.ENABLE_SLM
              /\ Truthy(call.response_text)
              /\ LoadedResponse.ok
              /\ SanitizeCandidate(LoadedResponse.value).kind # "raise"
           THEN ret = SanitizeCandidate(LoadedResponse.value)
           ELSE ret = dumped

\* a call whose response is an integer literal of more than MaxStrDigits digits
C21_Witness ==
    /\ pc = "refined"
    /\ dumped.kind # "raise"
    /\ call.ENABLE_SLM
    /\ call.response_text = StrVal(TxtManyDigits)

(***************************************************************************)
(* ResumeOutput built by its constructor and serialised                    *)
(* (test_resume_output_serialization_roundtrip of tests/test_schema.py).   *)
(***************************************************************************)
\* the default of a field of ResumeOutput that the caller leaves out
ResumeDefault(key) ==
    CASE key = "contact" -> Construct("Contact", <<>>)
      [] key = "meta" -> Construct("Meta", <<>>)
      [] OTHER -> ListVal(<<>>)

\* ResumeOutput(**given)
ResumeOutputWith(given) ==
    IF ~(DOMAIN given \subseteq ResumeKeys) THEN Raised("TypeError")
    ELSE ResumeOutput([key \in ResumeKeys |->
                          IF key \in DOMAIN given THEN given[key]
                          ELSE ResumeDefault(key)])

\* json.loads(resume.json()): json.dumps writes the mapping of to_dict, whose
\* keys are strings and whose values are strings, integers, None, lists and
\* mappings of these, and json.loads reads the same mapping back
JsonPayload(self) == ToDict(self)

TxtTestEmail == <<"t","e","s","t","@","e","x","a","m","p","l","e",".","c","o","m">>
TxtTestUser == <<"T","e","s","t"," ","U","s","e","r">>
TxtTestUniversity == <<"T","e","s","t"," ","U","n","i","v","e","r","s","i","t","y">>
TxtExampleCorp == <<"E","x","a","m","p","l","e"," ","C","o","r","p">>
TxtEngineer == <<"E","n","g","i","n","e","e","r">>
TxtWorked == <<"W","o","r","k","e","d"," ","o","n"," ","p","r","o","j","e","c","t","s",".">>
TxtDataAnalysis == <<"D","a","t","a"," ","A","n","a","l","y","s","i","s">>
Txt2019_01 == <<"2","0","1","9","-","0","1">>
Txt2020_01 == <<"2","0","2","0","-","0","1">>
Txt2022_05 == <<"2","0","2","2","-","0","5">>

TestContact ==
    Construct("Contact", [email |-> StrVal(TxtTestEmail), name |-> StrVal(TxtTestUser)])

TestEducation ==
    Construct("Education", [institution |-> StrVal(TxtTestUniversity),
                            start_date |-> StrVal(Txt2020_01),
                            end_date |-> StrVal(Txt2022_05)])

TestWorkExperience ==
    Construct("WorkExperience",
              [company |-> StrVal(TxtExampleCorp), position |-> StrVal(TxtEngineer),
               start_date |-> StrVal(Txt2019_01), end_date |-> StrVal(Txt2020_01),
               duration_months |-> IntVal(12),
               description |-> ListVal(<<StrVal(TxtWorked)>>)])

MaxGivenSkills == 2   \* skills handed to the constructor

\* a skill as the caller may give it: a plain string, a mapping, a Skill
GivenSkills ==
    {StrVal(TxtPython), StrVal(TxtDataAnalysis),
     DictVal([name |-> StrVal(TxtGo)]),
     Construct("Skill", [name |-> StrVal(TxtSQL)])}

\* the keyword arguments of ResumeOutput(...): some of contact, education,
\* work_experience and skills, the entries as instances
IsConstructorInput(p) ==
    \E keys \in SUBSET {"contact", "education", "work_experience", "skills"} :
    \E skills \in SeqsUpTo(GivenSkills, MaxGivenSkills) :
        /\ "skills" \notin keys => skills = <<>>
        /\ p = DictVal([key \in keys |->
                   CASE key = "contact" -> TestContact
                     [] key = "education" -> ListVal(<<TestEducation>>)
                     [] key = "work_experience" -> ListVal(<<TestWorkExperience>>)
                     [] OTHER -> ListVal(skills)])

InitConstruct ==
    /\ pc = "construct"
    /\ IsConstructorInput(payload)
    /\ resume = None
    /\ dumped = None
    /\ reloaded = None
    /\ IdleSections
    /\ IdleLines
    /\ IdleDates
    /\ IdleLink

\* resume = ResumeOutput(**payload)
ConstructorCall ==
    /\ pc = "construct"
    /\ resume' = ResumeOutputWith(payload.d)
    /\ pc' = "built"
    /\ UNCHANGED <<payload, dumped, reloaded, sectionVars, lineVars, dateVars,
                   linkVars>>

\* json.loads(resume.json())
JsonCall ==
    /\ pc = "built"
    /\ resume.kind = "object"
    /\ dumped' = JsonPayload(resume)
    /\ pc' = "serialized"
    /\ UNCHANGED <<payload, resume, reloaded, sectionVars, lineVars, dateVars,
                   linkVars>>

NextConstruct == ConstructorCall \/ JsonCall

SpecConstruct == InitConstruct /\ [][NextConstruct]_vars

\* the skills given are plain strings
PlainSkills ==
    /\ "skills" \in DOMAIN payload.d
    /\ payload.d.skills.items # <<>>
    /\ \A i \in DOMAIN payload.d.skills.items : payload.d.skills.items[i].kind = "str"

\* the values given to the constructor are those of the serialised mapping
GivenValuesKept ==
    /\ "contact" \in DOMAIN payload.d =>
          /\ dumped.d.contact.d.email = StrVal(TxtTestEmail)
          /\ dumped.d.contact.d.name = StrVal(TxtTestUser)
    /\ "education" \in DOMAIN payload.d =>
          /\ Len(dumped.d.education.items) = 1
          /\ dumped.d.education.items[1].d.institution = StrVal(TxtTestUniversity)
    /\ "work_experience" \in DOMAIN payload.d =>
          /\ Len(dumped.d.work_experience.items) = 1
          /\ dumped.d.work_experience.items[1].d.duration_months = IntVal(12)

\* C22: a ResumeOutput can be constructed with skills given as plain
\* strings; its JSON serialisation keeps the given values, holds an empty list
\* for every section not supplied, and holds a raw_text key whose value is null
C22_ConstructedAndSerialized ==
    /\ (pc = "built" /\ PlainSkills) => resume.kind = "object"
    /\ pc = "serialized" =>
          /\ GivenValuesKept
          /\ \A n \in DOMAIN ResumeSections :
                ResumeSections[n].key \notin DOMAIN payload.d =>
                    dumped.d[ResumeSections[n].key] = ListVal(<<>>)
          /\ "raw_text" \in DOMAIN dumped.d
          /\ dumped.d.raw_text = None

(***************************************************************************)
(* Header and footer removal (remove_headers_footers of ingestion.py).     *)
(***************************************************************************)
PageScale == 1000   \* the height of a page in normalized coordinates

\* the lines of _group_tokens_by_line with the text of each:
\* " ".join(token.text for token in line_tokens).strip()
LinesWithText(lines) ==
    [n \in DOMAIN lines |->
        [text |-> Strip(JoinWithSpace([i \in DOMAIN lines[n] |-> lines[n][i].text]),
                        Whitespace),
         tokens |-> lines[n]]]

HasText(line) == line.text # <<>>

\* the lines of the tokens of a region of a page that have text
RegionLines(region_tokens) ==
    SelectSeq(LinesWithText(IngestGroupTokensByLine(region_tokens)), HasText)

\* header_tokens and footer_tokens of a page
HeaderTokens(tokens, region_height) ==
    LET InHeader(token) == token.bbox.y0 <= region_height
    IN  SelectSeq(tokens, InHeader)

FooterTokens(tokens, region_height) ==
    LET InFooter(token) == token.bbox.y1 >= PageScale - region_height
    IN  SelectSeq(tokens, InFooter)

\* the lines of the header region and of the footer region of every page
HeaderMaps(doc, region_height) ==
    [p \in DOMAIN doc.pages |-> RegionLines(HeaderTokens(doc.pages[p], region_height))]

FooterMaps(doc, region_height) ==
    [p \in DOMAIN doc.pages |-> RegionLines(FooterTokens(doc.pages[p], region_height))]

\* header_counts[text] or footer_counts[text] after the first loop: one for
\* every line with that text, over the pages
RECURSIVE CountOf(_, _)
CountOf(page_lines, text) ==
    IF page_lines = <<>> THEN 0
    ELSE LET WithText(line) == line.text = text
         IN  Len(SelectSeq(Head(page_lines), WithText)) + CountOf(Tail(page_lines), text)

\* the keys of header_counts or footer_counts
CountedTexts(page_lines) ==
    UNION {{page_lines[p][n].text : n \in DOMAIN page_lines[p]} : p \in DOMAIN page_lines}

\* repeated_headers / repeated_footers
RepeatedTexts(page_lines, min_repeats) ==
    {text \in CountedTexts(page_lines) : CountOf(page_lines, text) >= min_repeats}

\* the identities of the tokens of header_map.get(text, []) or
\* footer_map.get(text, []) over the repeated texts
MappedTokens(lines, repeated) ==
    UNION {{lines[n].tokens[i].id : i \in DOMAIN lines[n].tokens} :
              n \in {m \in DOMAIN lines : lines[m].text \in repeated}}

\* [token for token in page.tokens if id(token) not in tokens_to_remove]
WithoutTokens(tokens, tokens_to_remove) ==
    LET Kept(token) == token.id \notin tokens_to_remove
    IN  SelectSeq(tokens, Kept)

\* the second loop: the tokens of every page without those to remove
CleanedPages(doc, header_lines, footer_lines, repeated_headers, repeated_footers) ==
    [p \in DOMAIN doc.pages |->
        WithoutTokens(doc.pages[p],
                      MappedTokens(header_lines[p], repeated_headers)
                        \cup MappedTokens(footer_lines[p], repeated_footers))]

\* ingestion._lines_from_tokens
LinesFromTokens(tokens) ==
    LET lines == RegionLines(tokens)
    IN  [n \in DOMAIN lines |-> lines[n].text]

\* cleaned_lines: the lines of every page, in page order
RECURSIVE CleanedLines(_)
CleanedLines(pages) ==
    IF pages = <<>> THEN <<>>
    ELSE LinesFromTokens(Head(pages)) \o CleanedLines(Tail(pages))

\* if document.raw_text: document.raw_text = "\n".join(cleaned_lines)
Cleaned(doc, pages) ==
    [doc EXCEPT !.pages = pages,
                !.raw_text = IF Truthy(doc.raw_text)
                             THEN StrVal(JoinWith(CleanedLines(pages), <<"\n">>))
                             ELSE doc.raw_text]

CleanedWith(doc, min_repeats, header_lines, footer_lines) ==
    Cleaned(doc, CleanedPages(doc, header_lines, footer_lines,
                              RepeatedTexts(header_lines, min_repeats),
                              RepeatedTexts(footer_lines, min_repeats)))

\* remove_headers_footers(document, region_height, min_repeats): the document
\* as the call leaves it
RemoveHeadersFooters(doc, region_height, min_repeats) ==
    IF doc.pages = <<>> THEN doc
    ELSE CleanedWith(doc, min_repeats, HeaderMaps(doc, region_height),
                     FooterMaps(doc, region_height))

(***************************************************************************)
(* Documents handed to remove_headers_footers: pages of tokens in the      *)
(* header region (on two lines), in the body and in the footer region.     *)
(***************************************************************************)
MaxPageTokens == 2   \* tokens of a page
MaxPages == 2        \* pages of a document

TxtPage == <<"P","a","g","e">>
TxtTwo == <<"T","w","o">>
TxtRawPages == <<"P","a","g","e","\n","x">>

\* the text and the box of a token
TokenPlaces ==
    {[text |-> TxtPage, bbox |-> [x0 |-> 100, y0 |-> 20, x1 |-> 200, y1 |-> 40]],
     [text |-> TxtTwo, bbox |-> [x0 |-> 50, y0 |-> 25, x1 |-> 90, y1 |-> 45]],
     [text |-> TxtPage, bbox |-> [x0 |-> 100, y0 |-> 60, x1 |-> 200, y1 |-> 75]],
     [text |-> TxtPage, bbox |-> [x0 |-> 100, y0 |-> 400, x1 |-> 200, y1 |-> 450]],
     [text |-> TxtPage, bbox |-> [x0 |-> 90, y0 |-> 960, x1 |-> 200, y1 |-> 990]]}

RECURSIVE PlacedPages(_, _)
PlacedPages(placed, base) ==
    IF placed = <<>> THEN <<>>
    ELSE <<[i \in DOMAIN Head(placed) |->
                [id |-> base + i, text |-> Head(placed)[i].text,
                 bbox |-> Head(placed)[i].bbox, page |-> 0, metadata |-> <<>>]]>>
         \o PlacedPages(Tail(placed), base + Len(Head(placed)))

IsPagedDocument(doc) ==
    \E placed \in SeqsUpTo(SeqsUpTo(TokenPlaces, MaxPageTokens), MaxPages) :
    \E raw_text \in {<<>>, TxtRawPages} :
        doc = [pages |-> PlacedPages(placed, 0), raw_text |-> StrVal(raw_text),
               file_path |-> StrVal(TxtResumePdf)]

RegionHeights == {80, 600}
MinRepeats == {1, 2}

InitHeaders ==
    /\ pc = "remove_headers_footers"
    /\ IsPagedDocument(document)
    /\ call \in {[op |-> "remove_headers_footers", document |-> document,
                  region_height |-> h, min_repeats |-> m] :
                     h \in RegionHeights, m \in MinRepeats}
    /\ ret = None
    /\ pos = 1
    /\ current_section = "other_sections"
    /\ sections = EmptySections
    /\ IdleLines
    /\ IdleSchema
    /\ IdleLink

\* remove_headers_footers changes the document in place and returns it
RemoveHeadersFootersCall ==
    /\ pc = "remove_headers_footers"
    /\ document' = RemoveHeadersFooters(document, call.region_height, call.min_repeats)
    /\ ret' = document'
    /\ pc' = "cleaned"
    /\ UNCHANGED <<pos, current_section, sections, call, lineVars, schemaVars, linkVars>>

NextHeaders == RemoveHeadersFootersCall

SpecHeaders == InitHeaders /\ [][NextHeaders]_vars

\* the pages on which a text is the text of a line of the region
PagesWithLine(page_lines, text) ==
    {p \in DOMAIN page_lines : \E n \in DOMAIN page_lines[p] : page_lines[p][n].text = text}

\* the token lies on a line of the region of its page whose text is the text
\* of a line of that region on at least min_repeats distinct pages
OnRepeatedLine(page_lines, p, token, min_repeats) ==
    \E n \in DOMAIN page_lines[p] :
        /\ \E i \in DOMAIN page_lines[p][n].tokens : page_lines[p][n].tokens[i].id = token.id
        /\ Cardinality(PagesWithLine(page_lines, page_lines[p][n].text)) >= min_repeats

RemovedIds == {t.id : t \in Range(DocTokens(call.document))} \ {t.id : t \in Range(DocTokens(document))}

\* C23: remove_headers_footers removes a token only if it lies in the header
\* region or the footer region and the text of its line appears in that region
\* on at least min_repeats distinct pages; the other tokens are kept in their
\* order; a non-empty raw_text is rebuilt from the remaining tokens
C23_OnlyRepeatedLinesRemoved ==
    pc = "cleaned" =>
        /\ Len(document.pages) = Len(call.document.pages)
        /\ \A p \in DOMAIN call.document.pages :
              /\ document.pages[p] = WithoutTokens(call.document.pages[p], RemovedIds)
              /\ \A i \in DOMAIN call.document.pages[p] :
                    call.document.pages[p][i].id \in RemovedIds =>
                        \/ OnRepeatedLine(HeaderMaps(call.document, call.region_height),
                                          p, call.document.pages[p][i], call.min_repeats)
                        \/ OnRepeatedLine(FooterMaps(call.document, call.region_height),
                                          p, call.document.pages[p][i], call.min_repeats)
        /\ document.raw_text =
              IF call.document.raw_text.s # <<>> /\ call.document.pages # <<>>
              THEN StrVal(JoinWith(CleanedLines(document.pages), <<"\n">>))
              ELSE call.document.raw_text

(***************************************************************************)
(* Reading order (sort_tokens_reading_order and reorder_document_tokens of *)
(* layout_utils.py).                                                       *)
(***************************************************************************)
\* token.metadata.get("column_id", 0)
ColumnId(token) ==
    IF "column_id" \in DOMAIN token.metadata THEN token.metadata["column_id"] ELSE 0

\* the sort key of sort_tokens_reading_order
ReadingKey_NoDefault(token) ==
    <<token.page,
      IF "column_id" \in DOMAIN token.metadata THEN token.metadata["column_id"] ELSE 1,
      token.bbox.y0, token.bbox.x0>>

ReadingKey(token) == <<token.page, ColumnId(token), token.bbox.y0, token.bbox.x0>>

\* the sort key of reorder_document_tokens
PageKey(token) == <<ColumnId(token), token.bbox.y0, token.bbox.x0>>

\* a < b for tuples of integers of one length, as Python compares tuples
RECURSIVE TupleLess(_, _)
TupleLess(a, b) ==
    IF a = <<>> THEN FALSE
    ELSE IF Head(a) # Head(b) THEN Head(a) < Head(b)
    ELSE TupleLess(Tail(a), Tail(b))

\* sorted(items, key=...) for items that carry their key: a stable sort, each
\* item placed after the items before it whose key is not greater
RECURSIVE SortedByKey(_)
SortedByKey(keyed) ==
    IF keyed = <<>> THEN <<>>
    ELSE LET last == keyed[Len(keyed)]
             front == SortedByKey(SubSeq(keyed, 1, Len(keyed) - 1))
             NotAfter(k) == ~TupleLess(last.key, k.key)
             After(k) == TupleLess(last.key, k.key)
         IN  SelectSeq(front, NotAfter) \o <<last>> \o SelectSeq(front, After)

Items(keyed) == [i \in DOMAIN keyed |-> keyed[i].item]

\* sort_tokens_reading_order(document)
SortTokensReadingOrder(doc) ==
    Items(SortedByKey([i \in DOMAIN DocTokens(doc) |->
                          [key |-> ReadingKey(DocTokens(doc)[i]),
                           item |-> DocTokens(doc)[i]]]))

\* page.tokens = sorted(page.tokens, key=...)
ReorderedPage(tokens) ==
    Items(SortedByKey([i \in DOMAIN tokens |->
                          [key |-> PageKey(tokens[i]), item |-> tokens[i]]]))

\* reorder_document_tokens(document): the document as the call leaves it
ReorderDocumentTokens(doc) ==
    [doc EXCEPT !.pages = [p \in DOMAIN doc.pages |-> ReorderedPage(doc.pages[p])]]

(***************************************************************************)
(* Documents handed to the layout functions: a first page of up to         *)
(* MaxLayoutTokens tokens and, possibly, a second page of one token; the   *)
(* page of a token is the index of its page.                               *)
(***************************************************************************)
MaxLayoutTokens == 3   \* tokens of the first page

\* column_id (-1: not set), y0 and x0 of a token
LayoutPlaces ==
    ({-1, 0, 1} \X {10, 20} \X {5}) \cup {<<-1, 10, 50>>, <<1, 10, 50>>}

\* the tokens of the page with index page, the first with identity base + 1
LayoutPage(placed, page, base) ==
    [i \in DOMAIN placed |->
        [id |-> base + i, text |-> TxtX,
         bbox |-> [x0 |-> placed[i][3], y0 |-> placed[i][2],
                   x1 |-> placed[i][3] + 20, y1 |-> placed[i][2] + 8],
         page |-> page,
         metadata |-> IF placed[i][1] = -1 THEN <<>>
                      ELSE [column_id |-> placed[i][1]]]]

IsLayoutDocument(doc) ==
    \E n \in 0..2 :
    \E first \in SeqsUpTo(LayoutPlaces, MaxLayoutTokens) :
    \E second \in SeqsUpTo(LayoutPlaces, 1) :
        /\ n < 1 => first = <<>>
        /\ n < 2 => second = <<>>
        /\ doc = [pages |-> SubSeq(<<LayoutPage(first, 0, 0),
                                     LayoutPage(second, 1, Len(first))>>, 1, n),
                  raw_text |-> StrVal(<<>>), file_path |-> StrVal(TxtResumePdf)]

InitReading ==
    /\ pc = "layout"
    /\ IsLayoutDocument(document)
    /\ call = [op |-> "none"]
    /\ ret = None
    /\ pos = 1
    /\ current_section = "other_sections"
    /\ sections = EmptySections
    /\ IdleLines
    /\ IdleSchema
    /\ IdleLink

\* ordered = sort_tokens_reading_order(document): the document is not changed
SortTokensReadingOrderCall ==
    /\ pc = "layout"
    /\ call' = [op |-> "sort_tokens_reading_order", document |-> document]
    /\ ret' = SortTokensReadingOrder(document)
    /\ pc' = "sorted"
    /\ UNCHANGED <<document, pos, current_section, sections, lineVars, schemaVars,
                   linkVars>>

\* reorder_document_tokens(document) changes the document in place
ReorderDocumentTokensCall ==
    /\ pc = "layout"
    /\ call' = [op |-> "reorder_document_tokens", document |-> document]
    /\ document' = ReorderDocumentTokens(document)
    /\ ret' = document'
    /\ pc' = "reordered"
    /\ UNCHANGED <<pos, current_section, sections, lineVars, schemaVars, linkVars>>

NextReading == SortTokensReadingOrderCall \/ ReorderDocumentTokensCall

SpecReading == InitReading /\ [][NextReading]_vars

\* the position of the token with an identity in a sequence of tokens
PositionIn(tokens, id) == CHOOSE i \in DOMAIN tokens : tokens[i].id = id

\* after is a rearrangement of before
IsPermutation(before, after) ==
    /\ Len(after) = Len(before)
    /\ \A i \in DOMAIN before : \E j \in DOMAIN after : after[j] = before[i]
    /\ \A i, j \in DOMAIN after : after[i].id = after[j].id => i = j

\* column, then y0, then x0 of a before those of b, or equal (column_id 0
\* when it is not set)
ColumnOrder(a, b) ==
    LET ca == IF "column_id" \in DOMAIN a.metadata THEN a.metadata["column_id"] ELSE 0
        cb == IF "column_id" \in DOMAIN b.metadata THEN b.metadata["column_id"] ELSE 0
    IN  CASE ca # cb -> IF ca < cb THEN "before" ELSE "after"
          [] a.bbox.y0 # b.bbox.y0 -> IF a.bbox.y0 < b.bbox.y0 THEN "before" ELSE "after"
          [] a.bbox.x0 # b.bbox.x0 -> IF a.bbox.x0 < b.bbox.x0 THEN "before" ELSE "after"
          [] OTHER -> "equal"

ReadingOrder(a, b) ==
    IF a.page # b.page THEN (IF a.page < b.page THEN "before" ELSE "after")
    ELSE ColumnOrder(a, b)

\* after holds the tokens of before in reading order within a page, tokens
\* of equal rank in their order of before
PageOrdered(before, after) ==
    /\ IsPermutation(before, after)
    /\ \A i, j \in DOMAIN after :
          i < j =>
             \/ ColumnOrder(after[i], after[j]) = "before"
             \/ /\ ColumnOrder(after[i], after[j]) = "equal"
                /\ PositionIn(before, after[i].id) < PositionIn(before, after[j].id)

\* C24: sort_tokens_reading_order returns the tokens of the document
\* rearranged in ascending order of (page, column_id or 0, y0, x0), tokens
\* with equal keys in their original order; reorder_document_tokens does the
\* same on each page with (column_id or 0, y0, x0), and no token changes page
C24_ReadingOrder ==
    /\ pc = "sorted" =>
          /\ document = call.document
          /\ IsPermutation(DocTokens(document), ret)
          /\ \A i, j \in DOMAIN ret :
                i < j =>
                   \/ ReadingOrder(ret[i], ret[j]) = "before"
                   \/ /\ ReadingOrder(ret[i], ret[j]) = "equal"
                      /\ PositionIn(DocTokens(document), ret[i].id)
                           < PositionIn(DocTokens(document), ret[j].id)
    /\ pc = "reordered" =>
          /\ Len(document.pages) = Len(call.document.pages)
          /\ \A p \in DOMAIN document.pages :
                PageOrdered(call.document.pages[p], document.pages[p])

\* a page whose tokens arrive out of reading order, two of them with equal
\* keys, one without column_id, has been sorted and reordered
C24_Witness ==
    /\ pc \in {"sorted", "reordered"}
    /\ Len(call.document.pages) = 2
    /\ Len(call.document.pages[1]) = 3
    /\ call.document.pages[1] # ReorderedPage(call.document.pages[1])
    /\ \E i, j \in DOMAIN call.document.pages[1] :
          /\ i < j
          /\ PageKey(call.document.pages[1][i]) = PageKey(call.document.pages[1][j])
          /\ call.document.pages[1][i].metadata # call.document.pages[1][j].metadata

(***************************************************************************)
(* Bounding boxes (normalize_bbox and normalize_document_bboxes of         *)
(* ingestion.py).  Coordinates and page sizes are counted in a common unit,*)
(* so that they are integers; the quotient scale * v / dimension does not  *)
(* depend on the unit.                                                     *)
(***************************************************************************)
\* int(n / d) for d # 0: the quotient truncated towards zero
TruncDiv(n, d) ==
    IF (n >= 0) = (d > 0)
    THEN (IF n >= 0 THEN n ELSE -n) \div (IF d > 0 THEN d ELSE -d)
    ELSE -((IF n >= 0 THEN n ELSE -n) \div (IF d > 0 THEN d ELSE -d))

\* max(min(v, dimension), 0)
ClampToPage_NoClamp(v, dimension) == v

ClampToPage(v, dimension) == Max(Min(v, dimension), 0)

\* int(scale * v / dimension) if dimension else 0
Scaled(v, dimension, scale) ==
    IF dimension # 0 THEN TruncDiv(scale * v, dimension) ELSE 0

\* normalize_bbox((x0, top, x1, bottom), page_width, page_height, scale)
NormalizeBbox(bbox, page_width, page_height, scale) ==
    [x0 |-> Scaled(ClampToPage(bbox[1], page_width), page_width, scale),
     y0 |-> Scaled(ClampToPage(bbox[2], page_height), page_height, scale),
     x1 |-> Scaled(ClampToPage(bbox[3], page_width), page_width, scale),
     y1 |-> Scaled(ClampToPage(bbox[4], page_height), page_height, scale)]

\* max(0, min(scale, v))
ClampToScale(v, scale) == Max(0, Min(scale, v))

\* normalize_document_bboxes(document, scale): the document as the call
\* leaves it
NormalizeDocumentBboxes(doc, scale) ==
    [doc EXCEPT !.pages =
        [p \in DOMAIN doc.pages |->
            [i \in DOMAIN doc.pages[p] |->
                [doc.pages[p][i] EXCEPT
                    !.bbox = [x0 |-> ClampToScale(doc.pages[p][i].bbox.x0, scale),
                              y0 |-> ClampToScale(doc.pages[p][i].bbox.y0, scale),
                              x1 |-> ClampToScale(doc.pages[p][i].bbox.x1, scale),
                              y1 |-> ClampToScale(doc.pages[p][i].bbox.y1, scale)]]]]]

(***************************************************************************)
(* Boxes and page sizes handed to normalize_bbox, documents handed to      *)
(* normalize_document_bboxes.                                              *)
(***************************************************************************)
BboxScale == 1000   \* IngestionConfig.bbox_scale

\* coordinates left of, on and right of a page of width 3 or 7
BoxCoordinates == {-2, 0, 2, 3, 9}
PageDimensions == {-4, 0, 3, 7}

MaxBoxTokens == 2   \* tokens of a page of a document to clamp

\* boxes of tokens inside and outside the scale
TokenBoxes ==
    {[x0 |-> 0, y0 |-> 10, x1 |-> 1000, y1 |-> 20],
     [x0 |-> -5, y0 |-> 990, x1 |-> 30, y1 |-> 1010],
     [x0 |-> 1001, y0 |-> -1, x1 |-> 1200, y1 |-> 5],
     [x0 |-> 5, y0 |-> 7, x1 |-> 9, y1 |-> 11]}

BoxScales == {0, 10, BboxScale}

BoxPage(boxes, page, base) ==
    [i \in DOMAIN boxes |->
        [id |-> base + i, text |-> TxtX, bbox |-> boxes[i], page |-> page,
         metadata |-> [column_id |-> 0]]]

IsBoxDocument(doc) ==
    \E n \in 0..2 :
    \E first \in SeqsUpTo(TokenBoxes, MaxBoxTokens) :
    \E second \in SeqsUpTo(TokenBoxes, MaxBoxTokens) :
        /\ n < 1 => first = <<>>
        /\ n < 2 => second = <<>>
        /\ doc = [pages |-> SubSeq(<<BoxPage(first, 0, 0),
                                     BoxPage(second, 1, Len(first))>>, 1, n),
                  raw_text |-> StrVal(<<>>), file_path |-> StrVal(TxtResumePdf)]

InitBbox ==
    /\ pc = "bbox"
    /\ \/ /\ document = EmptyDocument(<<>>, TxtResumePdf)
          /\ call \in {[op |-> "normalize_bbox", bbox |-> b, page_width |-> w,
                        page_height |-> h, scale |-> BboxScale] :
                          b \in BoxCoordinates \X BoxCoordinates \X BoxCoordinates
                                  \X BoxCoordinates,
                          w \in PageDimensions, h \in PageDimensions}
       \/ /\ IsBoxDocument(document)
          /\ call \in {[op |-> "normalize_document_bboxes", document |-> document,
                        scale |-> s] : s \in BoxScales}
    /\ ret = None
    /\ pos = 1
    /\ current_section = "other_sections"
    /\ sections = EmptySections
    /\ IdleLines
    /\ IdleSchema
    /\ IdleLink

NormalizeBboxCall ==
    /\ pc = "bbox"
    /\ call.op = "normalize_bbox"
    /\ ret' = NormalizeBbox(call.bbox, call.page_width, call.page_height, call.scale)
    /\ pc' = "normalized"
    /\ UNCHANGED <<document, pos, current_section, sections, call, lineVars,
                   schemaVars, linkVars>>

\* normalize_document_bboxes changes the boxes in place and returns the
\* document
NormalizeDocumentBboxesCall ==
    /\ pc = "bbox"
    /\ call.op = "normalize_document_bboxes"
    /\ document' = NormalizeDocumentBboxes(document, call.scale)
    /\ ret' = document'
    /\ pc' = "clamped"
    /\ UNCHANGED <<pos, current_section, sections, call, lineVars, schemaVars,
                   linkVars>>

NextBbox == NormalizeBboxCall \/ NormalizeDocumentBboxesCall

SpecBbox == InitBbox /\ [][NextBbox]_vars

\* C25: every coordinate normalize_bbox produces with scale 1000 is an
\* integer from 0 to 1000, and 0 when the page dimension is 0; after
\* normalize_document_bboxes every coordinate of every token is from 0 to
\* scale
C25_CoordinatesInScale ==
    /\ pc = "normalized" =>
          /\ \A c \in {ret.x0, ret.y0, ret.x1, ret.y1} : c \in 0..1000
          /\ call.page_width = 0 => ret.x0 = 0 /\ ret.x1 = 0
          /\ call.page_height = 0 => ret.y0 = 0 /\ ret.y1 = 0
    /\ pc = "clamped" =>
          \A p \in DOMAIN document.pages : \A i \in DOMAIN document.pages[p] :
              \A c \in {document.pages[p][i].bbox.x0, document.pages[p][i].bbox.y0,
                        document.pages[p][i].bbox.x1, document.pages[p][i].bbox.y1} :
                  c \in 0..call.scale

\* a box that reaches over the right and the lower edge of its page has
\* been normalized, or a token outside the scale has been clamped
C25_Witness ==
    \/ /\ pc = "normalized"
       /\ call.page_width = 3
       /\ call.page_height = 7
       /\ call.bbox = <<-2, 2, 9, 9>>
       /\ ret = [x0 |-> 0, y0 |-> 285, x1 |-> 1000, y1 |-> 1000]
    \/ /\ pc = "clamped"
       /\ call.scale = BboxScale
       /\ \E p \in DOMAIN call.document.pages : \E i \in DOMAIN call.document.pages[p] :
             /\ call.document.pages[p][i].bbox.x1 = 1200
             /\ document.pages[p][i].bbox.x1 = 1000

(***************************************************************************)
(* Section builders on the tokens of a section (build_work_entries,        *)
(* build_certifications and build_publications of postprocessing.py).      *)
(***************************************************************************)
MaxSectionLines == 3   \* lines of a section

\* lines of a section, word by word: dated by a range, by a year, undated,
\* with a bullet, a bullet alone, dated by the year 0000, a range after a comma
SectionLineTexts ==
    { <<<<"E","n","g","i","n","e","e","r">>, <<"a","t">>, <<"A","C","M","E">>,
        <<"J","a","n">>, <<"2","0","1","9">>, <<"-">>, <<"P","r","e","s","e","n","t">>>>,
      <<<<"C","l","e","r","k",",">>, <<"I","n","i","t","e","c","h">>, <<"2","0","1","8">>>>,
      <<<<"D","e","v","e","l","o","p","e","r",",">>, <<"G","l","o","b","e","x">>>>,
      <<<<"-">>, <<"b","u","i","l","t">>, <<"t","h","i","n","g","s">>>>,
      <<<<"BULLET">>>>,
      <<<<"C","l","e","r","k">>, <<"0","0","0","0">>>>,
      <<<<"A","W","S",",">>, <<"2","0","1","9">>, <<"-">>, <<"2","0","2","0">>>> }

InitBuilders ==
    /\ pc = "section"
    /\ \E lines \in SeqsUpTo(SectionLineTexts, MaxSectionLines) :
          line_input = PageTokens(lines, 1, 0)
    /\ grouped = <<>>
    /\ text_lines = <<>>
    /\ ingest_lines = <<>>
    /\ call = [op |-> "none"]
    /\ ret = None
    /\ IdleSections
    /\ IdleSchema
    /\ embeddings = None
    /\ utcnow \in NowValues
    /\ earlier = None

BuilderUnchanged ==
    UNCHANGED <<sectionVars, lineVars, schemaVars, embeddings, utcnow, earlier>>

\* build_work_entries(tokens) while the clock reads utcnow
BuildWorkEntriesCall ==
    /\ pc = "section"
    /\ call' = [op |-> "build_work_entries"]
    /\ ret' = BuildWorkEntries(line_input, utcnow)
    /\ pc' = "built"
    /\ BuilderUnchanged

\* build_certifications(tokens)
BuildCertificationsCall ==
    /\ pc = "section"
    /\ call' = [op |-> "build_certifications"]
    /\ ret' = BuildCertifications(line_input)
    /\ pc' = "built"
    /\ BuilderUnchanged

\* build_publications(tokens)
BuildPublicationsCall ==
    /\ pc = "section"
    /\ call' = [op |-> "build_publications"]
    /\ ret' = BuildPublications(line_input)
    /\ pc' = "built"
    /\ BuilderUnchanged

NextBuilders ==
    BuildWorkEntriesCall \/ BuildCertificationsCall \/ BuildPublicationsCall

SpecBuilders == InitBuilders /\ [][NextBuilders]_vars

\* the lines of the section
SectionLines == TokensToLines(line_input)

\* normalize_date_range gives a start or an end for the n-th line
IsDatedLine(n) ==
    \/ Truthy(NormalizeDateRange(Strip(SectionLines[n], Whitespace)).items[1])
    \/ Truthy(NormalizeDateRange(Strip(SectionLines[n], Whitespace)).items[2])

\* the lines that open an entry: the dated lines, and the first line
HeadingIndexes == {n \in DOMAIN SectionLines : n = 1 \/ IsDatedLine(n)}

\* the bullets of the lines after the heading h up to the next heading
BulletsAfter(h) ==
    LET next == {n \in HeadingIndexes : n > h}
        last == IF next = {} THEN Len(SectionLines) ELSE Leftmost(next) - 1
        cleaned == [n \in 1..(last - h) |-> CleanBullet(SectionLines[h + n])]
    IN  SelectSeq(cleaned, LAMBDA bullet : bullet # <<>>)

\* C26: build_work_entries returns one entry for every dated line, and one
\* for the first line when it is undated, in the order of the lines; every
\* other line is a bullet of the description of the nearest heading before it
C26_EntriesFollowHeadings ==
    (pc = "built" /\ call.op = "build_work_entries") =>
        /\ ret.kind = "list"
        /\ Len(ret.items) = Cardinality(HeadingIndexes)
        /\ \A k \in DOMAIN ret.items :
              LET h == SortedInts(HeadingIndexes)[k]
                  dates == NormalizeDateRange(Strip(SectionLines[h], Whitespace))
              IN  /\ ret.items[k].f.start_date = dates.items[1]
                  /\ Truthy(ret.items[k].f.end_date) = Truthy(dates.items[2])
                  /\ ret.items[k].f.description =
                        ListVal([n \in DOMAIN BulletsAfter(h) |->
                                    StrVal(BulletsAfter(h)[n])])

\* the lines build_certifications makes an entry of, and those of
\* build_publications (a line that is empty once bullet-stripped is skipped)
EntryLines ==
    IF call.op = "build_publications"
    THEN SelectSeq(SectionLines, LAMBDA line : CleanBullet(line) # <<>>)
    ELSE SectionLines

\* name of a Certification, title of a Publication
NameOf(entry) == IF entry.cls = "Publication" THEN entry.f.title ELSE entry.f.name

\* the words of a line that are no part of a date: no digit, no month name,
\* no dash, not the word Present
NonDateWords(cleaned) ==
    LET words == SplitOn(cleaned, {" "})
    IN  SelectSeq([n \in DOMAIN words |-> Strip(words[n], HeadingStrip)],
            LAMBDA word :
                /\ word # <<>>
                /\ \A i \in DOMAIN word : ~IsDigit(word[i])
                /\ \A m \in DOMAIN MONTH_ALTERNATIVES :
                      LowerStr(word) # MONTH_ALTERNATIVES[m]
                /\ word # <<"P","r","e","s","e","n","t">>)

\* the text holds a year: four digits in a row
HoldsYear(text) == \E i \in DOMAIN text : AllDigits(text, i, 4)

\* the date stored is the date given, the word present in either case
SameDate(stored, date) ==
    /\ stored.kind = "str"
    /\ LowerStr(stored.s) = LowerStr(date.s)

\* C27: a certification or publication line in which a date is recognised
\* gives an entry whose name or title is the bullet-stripped line without the
\* date text and with the rest of the text, and whose date is the normalized
\* end, or else start, of the line; a line without a date gives its whole
\* bullet-stripped text as name or title, and no date
C27_NameWithoutDate ==
    (pc = "built" /\ call.op \in {"build_certifications", "build_publications"}) =>
        /\ ret.kind = "list"
        /\ Len(ret.items) = Len(EntryLines)
        /\ \A n \in DOMAIN ret.items :
              LET cleaned == CleanBullet(EntryLines[n])
                  date == EndOrStart(NormalizeDateRange(cleaned))
              IN  IF Truthy(date)
                  THEN /\ SameDate(ret.items[n].f.date, date)
                       /\ IF NonDateWords(cleaned) = <<>>
                          THEN NameOf(ret.items[n]) = None
                          ELSE /\ NameOf(ret.items[n]).kind = "str"
                               /\ ~HoldsYear(NameOf(ret.items[n]).s)
                               /\ \A w \in DOMAIN NonDateWords(cleaned) :
                                     Contains(NameOf(ret.items[n]).s,
                                              NonDateWords(cleaned)[w])
                  ELSE /\ ret.items[n].f.date = None
                       /\ NameOf(ret.items[n]) = OrNone(cleaned)

(***************************************************************************)
(* sanitize_resume_payload applied to its own result.                      *)
(***************************************************************************)
\* the second call: the mapping the first call returned is the payload
ResanitizeCall ==
    /\ pc = "sanitized"
    /\ dumped.kind = "dict"
    /\ reloaded' = SanitizeResumePayload(dumped)
    /\ pc' = "resanitized"
    /\ UNCHANGED <<payload, resume, dumped, sectionVars, lineVars, dateVars,
                   linkVars>>

NextResanitize ==
    \/ SanitizeCall
    \/ ResanitizeCall

SpecResanitize == InitSanitize /\ [][NextResanitize]_vars

\* C28: sanitize_resume_payload is idempotent: applied to a mapping it
\* returned, it succeeds and returns that mapping again.
C28_SanitizeIsIdempotent ==
    pc = "resanitized" =>
        /\ reloaded.kind = "dict"
        /\ reloaded = dumped

\* a payload the first call changes (a number made a string, a description
\* stripped, a key outside the schema dropped) and the second leaves alone
C28_Witness ==
    /\ pc = "resanitized"
    /\ "work_experience" \in DOMAIN payload.d
    /\ payload.d.work_experience.kind = "list"
    /\ Len(payload.d.work_experience.items) = 2
    /\ payload.d.work_experience.items[1] =
          DictVal([company |-> IntVal(5), description |-> StrVal(TxtDidThings)])
    /\ payload.d.work_experience.items[2] =
          DictVal([company |-> StrVal(TxtAcme),
                   duration_months |-> StrVal(<<" ","7"," ">>),
                   salary |-> IntVal(1)])
    /\ dumped.d.work_experience.items[1].d.company = StrVal(<<"5">>)
    /\ dumped.d.work_experience.items[1].d.description =
          ListVal(<<StrVal(<<"d","i","d"," ","t","h","i","n","g","s">>)>>)
    /\ dumped.d.work_experience.items[2].d.duration_months = IntVal(7)
    /\ reloaded = dumped

(***************************************************************************)
(* Column assignment (assign_columns of layout_utils.py).  A centre is     *)
(* counted in half units, x0 + x1, and a column is kept as the sum of the  *)
(* centres of its tokens and their number: column["center"] is num / count *)
(* half units, and (center * count + c) / (count + 1) is                   *)
(* (num + c) / (count + 1).                                                *)
(***************************************************************************)
\* _token_center_x, in half units
TokenCenterX(token) == token.bbox.x0 + token.bbox.x1

\* sorted(tokens, key=_token_center_x)
SortedByCenter_Unsorted(tokens) == tokens

SortedByCenter(tokens) ==
    Items(SortedByKey([i \in DOMAIN tokens |->
                          [key |-> <<TokenCenterX(tokens[i])>>, item |-> tokens[i]]]))

\* abs(center - column["center"]) in half units, times column["count"]
Distance(center, column) ==
    IF center * column.count >= column.num
    THEN center * column.count - column.num
    ELSE column.num - center * column.count

\* abs(center - column["center"]) <= column_gap
WithinGap(center, column, column_gap) ==
    Distance(center, column) <= 2 * column_gap * column.count

\* min(range(len(columns)), key=...): the first column of the least distance
NearestIdx(columns, center) ==
    CHOOSE i \in DOMAIN columns :
        \A j \in DOMAIN columns :
            LET di == Distance(center, columns[i]) * columns[j].count
                dj == Distance(center, columns[j]) * columns[i].count
            IN  di < dj \/ (di = dj /\ i <= j)

\* the column a token goes to, counted from 1: the first within column_gap,
\* or a new one while there are fewer than max_columns, or the nearest
ColumnFor(columns, center, max_columns, column_gap) ==
    LET matching == {idx \in DOMAIN columns :
                        WithinGap(center, columns[idx], column_gap)}
    IN  IF matching # {} THEN Leftmost(matching)
        ELSE IF Len(columns) < max_columns THEN Len(columns) + 1
        ELSE NearestIdx(columns, center)

\* the columns after a token went to the column idx
ColumnsWith(columns, idx, center) ==
    IF idx > Len(columns) THEN Append(columns, [num |-> center, count |-> 1])
    ELSE [columns EXCEPT ![idx] = [num |-> @.num + center, count |-> @.count + 1]]

\* token.metadata["column_id"] = idx
WithColumnId(token, idx) ==
    [token EXCEPT !.metadata =
        [k \in DOMAIN token.metadata \cup {"column_id"} |->
            IF k = "column_id" THEN idx ELSE token.metadata[k]]]

\* the loop over the sorted tokens of a page: the tokens with their column
RECURSIVE AssignLoop(_, _, _, _, _)
AssignLoop(sorted, columns, max_columns, column_gap, done) ==
    IF sorted = <<>> THEN done
    ELSE AssignLoop(Tail(sorted),
                    ColumnsWith(columns,
                                ColumnFor(columns, TokenCenterX(Head(sorted)),
                                          max_columns, column_gap),
                                TokenCenterX(Head(sorted))),
                    max_columns, column_gap,
                    Append(done,
                           WithColumnId(Head(sorted),
                                        ColumnFor(columns, TokenCenterX(Head(sorted)),
                                                  max_columns, column_gap) - 1)))

\* the tokens of a page, in the order of the page, as the loop left them
AssignedPage(tokens, done) ==
    [i \in DOMAIN tokens |-> done[PositionIn(done, tokens[i].id)]]

\* assign_columns(document, max_columns, column_gap): the document as the
\* call leaves it
AssignColumns(doc, max_columns, column_gap) ==
    [doc EXCEPT !.pages =
        [p \in DOMAIN doc.pages |->
            AssignedPage(doc.pages[p],
                         AssignLoop(SortedByCenter(doc.pages[p]), <<>>,
                                    max_columns, column_gap, <<>>))]]

(***************************************************************************)
(* Documents handed to assign_columns: a first page of up to               *)
(* MaxColumnTokens tokens and, possibly, a second page of one token.       *)
(***************************************************************************)
MaxColumnTokens == 4   \* tokens of the first page

\* x0 and x1 of a token, and the column_id it carries already (-1: none)
ColumnPlaces ==
    {<<0, 0, -1>>, <<0, 1, -1>>, <<1, 2, 7>>, <<2, 4, -1>>, <<9, 9, -1>>}

\* values of max_columns and of column_gap
ColumnLimits == {1, 2, 3}
ColumnGaps == {0, 2}

ColumnPage(placed, page, base) ==
    [i \in DOMAIN placed |->
        [id |-> base + i, text |-> TxtX,
         bbox |-> [x0 |-> placed[i][1], y0 |-> 10, x1 |-> placed[i][2], y1 |-> 18],
         page |-> page,
         metadata |-> IF placed[i][3] = -1 THEN <<>>
                      ELSE [column_id |-> placed[i][3]]]]

IsColumnDocument(doc) ==
    \E n \in 0..2 :
    \E first \in SeqsUpTo(ColumnPlaces, MaxColumnTokens) :
    \E second \in SeqsUpTo(ColumnPlaces, 1) :
        /\ n < 1 => first = <<>>
        /\ n < 2 => second = <<>>
        /\ doc = [pages |-> SubSeq(<<ColumnPage(first, 0, 0),
                                     ColumnPage(second, 1, Len(first))>>, 1, n),
                  raw_text |-> StrVal(<<>>), file_path |-> StrVal(TxtResumePdf)]

InitColumns ==
    /\ pc = "columns"
    /\ IsColumnDocument(document)
    /\ \E max_columns \in ColumnLimits :
       \E column_gap \in ColumnGaps :
           call = [op |-> "none", max_columns |-> max_columns,
                   column_gap |-> column_gap]
    /\ ret = None
    /\ pos = 1
    /\ current_section = "other_sections"
    /\ sections = EmptySections
    /\ IdleLines
    /\ IdleSchema
    /\ IdleLink

\* assign_columns(document, max_columns, column_gap) changes the tokens of
\* the document in place and returns the document
AssignColumnsCall ==
    /\ pc = "columns"
    /\ call' = [call EXCEPT !.op = "assign_columns"]
    /\ document' = AssignColumns(document, call.max_columns, call.column_gap)
    /\ ret' = document'
    /\ pc' = "assigned"
    /\ UNCHANGED <<pos, current_section, sections, lineVars, schemaVars, linkVars>>

NextColumns == AssignColumnsCall

SpecColumns == InitColumns /\ [][NextColumns]_vars

\* C29: after assign_columns every token of every page has a column_id from
\* 0 up to max_columns - 1, a page uses at most max_columns ids, and on a
\* page a token whose centre is further right never has a lower column_id
\* than one whose centre is further left.
C29_ColumnsFollowCentres ==
    pc = "assigned" =>
        \A p \in DOMAIN document.pages :
            LET tokens == document.pages[p]
            IN  /\ \A i \in DOMAIN tokens :
                      /\ "column_id" \in DOMAIN tokens[i].metadata
                      /\ tokens[i].metadata["column_id"] \in 0..(call.max_columns - 1)
                /\ Cardinality({tokens[i].metadata["column_id"] : i \in DOMAIN tokens})
                      <= call.max_columns
                /\ \A i, j \in DOMAIN tokens :
                      TokenCenterX(tokens[i]) < TokenCenterX(tokens[j])
                      => tokens[i].metadata["column_id"]
                            <= tokens[j].metadata["column_id"]

\* two columns at most and no gap: the tokens of a page, given from right to
\* left, fill both columns, and the rightmost two, within the gap of neither,
\* join the nearest
C29_Witness ==
    /\ pc = "assigned"
    /\ call.max_columns = 2
    /\ call.column_gap = 0
    /\ Len(document.pages) >= 1
    /\ [i \in DOMAIN document.pages[1] |->
           TokenCenterX(document.pages[1][i])] = <<18, 6, 1, 0>>
    /\ [i \in DOMAIN document.pages[1] |->
           document.pages[1][i].metadata["column_id"]] = <<1, 1, 1, 0>>

(***************************************************************************)
(* Chunking (LayoutLMv3Inference._chunk_tokens of inference.py).  The      *)
(* generator is resumed by the loop of predict_page until it returns; call   *)
(* holds its configuration and its local start, ret the chunks it has      *)
(* yielded.                                                                *)
(***************************************************************************)
\* token_indices = list(range(len(page.tokens)))
TokenIndices(n) == [i \in 1..n |-> i - 1]

\* end = min(start + max_len, len(token_indices))
ChunkEnd(start, max_len, n) == Min(start + max_len, n)

\* start = end - overlap; if start < 0: start = 0
NextStart_NoOverlap(end, overlap) == Max(end, 0)

NextStart(end, overlap) == Max(end - overlap, 0)

MaxChunkTokens == 8   \* tokens of the page
MaxMaxLength == 4     \* greatest max_length of a configuration

\* a page of n tokens
ChunkPage(n) == ColumnPage([i \in 1..n |-> <<0, 0, -1>>], 0, 0)

\* the tokens of the page of the call
PageTokenCount == Len(document.pages[1])

InitChunks ==
    /\ pc = "chunk"
    /\ \E n \in 0..MaxChunkTokens :
           document = [pages |-> <<ChunkPage(n)>>, raw_text |-> StrVal(<<>>),
                       file_path |-> StrVal(TxtResumePdf)]
    /\ \E max_length \in 1..MaxMaxLength :
       \E chunk_overlap \in 0..(max_length - 1) :
           call = [op |-> "_chunk_tokens", max_length |-> max_length,
                   chunk_overlap |-> chunk_overlap, start |-> 0]
    /\ ret = ListVal(<<>>)
    /\ pos = 1
    /\ current_section = "other_sections"
    /\ sections = EmptySections
    /\ IdleLines
    /\ IdleSchema
    /\ IdleLink

\* a page of at most max_length tokens: yield token_indices; return
YieldAll ==
    /\ pc = "chunk"
    /\ PageTokenCount <= call.max_length
    /\ ret' = ListVal(Append(ret.items, TokenIndices(PageTokenCount)))
    /\ pc' = "chunked"
    /\ UNCHANGED <<call, sectionVars, lineVars, schemaVars, linkVars>>

\* one round of the while loop: the generator returns when start has reached
\* the end; otherwise it yields token_indices[start:end] and either returns,
\* the chunk being the last, or moves start
YieldChunk ==
    /\ pc = "chunk"
    /\ PageTokenCount > call.max_length
    /\ IF call.start < PageTokenCount
       THEN LET end == ChunkEnd(call.start, call.max_length, PageTokenCount)
            IN  /\ ret' = ListVal(Append(ret.items, Slice(TokenIndices(PageTokenCount), call.start, end)))
                /\ IF end = PageTokenCount
                   THEN /\ pc' = "chunked"
                        /\ call' = call
                   ELSE /\ pc' = pc
                        /\ call' = [call EXCEPT
                                       !.start = NextStart(end, call.chunk_overlap)]
       ELSE /\ pc' = "chunked"
            /\ UNCHANGED <<call, ret>>
    /\ UNCHANGED <<sectionVars, lineVars, schemaVars, linkVars>>

NextChunks ==
    \/ YieldAll
    \/ YieldChunk

SpecChunks == InitChunks /\ [][NextChunks]_vars

\* the loop of predict_page resumes the generator until it is exhausted
FairSpecChunks == SpecChunks /\ WF_vars(NextChunks)

\* what C30 says of the chunks of a page once the generator has returned
ChunksAsClaimed(chunks, n, max_length, chunk_overlap) ==
    /\ \A k \in DOMAIN chunks :
          /\ Len(chunks[k]) <= max_length
          /\ \A i \in 1..(Len(chunks[k]) - 1) : chunks[k][i + 1] = chunks[k][i] + 1
    /\ \A k \in 1..(Len(chunks) - 1) :
          /\ chunks[k] # <<>> /\ chunks[k + 1] # <<>>
          /\ chunks[k][1] < chunks[k + 1][1]
          /\ Cardinality(Range(chunks[k]) \cap Range(chunks[k + 1]))
                = chunk_overlap
    /\ UNION {Range(chunks[k]) : k \in DOMAIN chunks} = 0..(n - 1)
    /\ n <= max_length => chunks = <<TokenIndices(n)>>

\* C30: with max_length >= 1 and 0 <= chunk_overlap < max_length
\* _chunk_tokens terminates, and the chunks it has yielded by then are runs
\* of consecutive indices of at most max_length indices each, in increasing
\* order, that cover exactly the indices 0..n-1 of the page, two chunks in a
\* row sharing exactly chunk_overlap indices; a page of at most max_length
\* tokens gives the one chunk of all its indices.
C30_ChunksCoverPage ==
    /\ <>(pc = "chunked")
    /\ [](pc = "chunked" =>
            ChunksAsClaimed(ret.items, PageTokenCount, call.max_length,
                            call.chunk_overlap))

\* a page of eight tokens in chunks of three that overlap by one: the last
\* chunk is shorter
C30_Witness ==
    /\ pc = "chunked"
    /\ PageTokenCount = 8
    /\ call.max_length = 3
    /\ call.chunk_overlap = 1
    /\ ret.items = <<<<0, 1, 2>>, <<2, 3, 4>>, <<4, 5, 6>>, <<6, 7>>>>

====
